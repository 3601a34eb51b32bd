------------------------------ MODULE UrfDaemon ------------------------------
(***************************************************************************)
(* The daemon's requests (urf-daemon.c), the flight mode walk over the     *)
(* rfkill types (urf-arbitrator.c) and the states they save                *)
(* (urf-config.c).                                                         *)
(*                                                                         *)
(* A killswitch is what UrfKillswitch shows it to be: a call is answered   *)
(* later, with success or not; a call made while another is in progress    *)
(* takes its place, and the answer of the first then fails an assertion,   *)
(* as does the answer of a device that has been removed.  There is at most *)
(* one adapter of a type here, and its index is its type: what a           *)
(* killswitch does with several is in UrfKillswitch.                       *)
(*                                                                         *)
(* What the kernel, oFono and the users of the switches do is              *)
(* unconstrained, so a request to an adapter has no effect on soft but the *)
(* events that may follow.                                                 *)
(***************************************************************************)
EXTENDS UrfTypes

CONSTANTS
    N,                   \* NUM_RFKILL_TYPES - 1
    WLAN, WWAN,          \* two of the types 1..N
    Modems,              \* the types whose adapter is an oFono modem
    HardSwitches,        \* the types whose adapter has a hardware switch
    Keys,                \* the keys: a type each, ALL for KEY_RFKILL
    master_key,          \* the option
    force_sync,          \* the option
    strict_flight_mode,  \* the option
    BlockTypes,          \* the types Block is called with
    Clients,             \* the D-Bus clients
    Removals,            \* adapters may be removed
    Crashes,             \* the daemon may be killed between two dispatches
    TornSaves            \* ... and inside the dispatch that ends a flight mode

ALL == 0
Types == 1..N
NULL == "NULL"           \* priv->invocation when no request is in progress

ASSUME DaemonAssumption ==
    /\ N \in Nat \ {0}
    /\ {WLAN, WWAN} \subseteq Types
    /\ Modems \subseteq Types
    /\ HardSwitches \subseteq Types \ Modems
    /\ Keys \subseteq Types \cup {ALL}
    /\ BlockTypes \subseteq Types \cup {ALL}
    /\ NULL \notin Clients
    /\ {master_key, force_sync, strict_flight_mode, Removals, Crashes,
        TornSaves} \subseteq BOOLEAN

VARIABLES
    present,             \* the types that have an adapter
    soft, hard,          \* what its device object believes
    walk,                \* per killswitch, the call in progress
    stale,               \* ... and the assertions that late answers will fail
    persist,             \* "soft" of each type and of ALL in the saved file
    prev_soft,           \* "prev-soft" of each type
    flight_mode,         \* priv->flight_mode
    invocation,          \* priv->invocation, the client it belongs to
    kind,                \* the callback of the daemon's task
    target,              \* the type that task carries
    ready,               \* that task has been returned by an empty killswitch
    pending_block,       \* the daemon's priv->pending_block
    fm_block,            \* the arbitrator's priv->pending_block
    block_index,         \* the arbitrator's
    initial_state, final_state, \* fm_task_data
    client,              \* per client, what it knows of its last call
    accepted,            \* history: the value asked by the accepted call
    announced,           \* history: the last FlightModeChanged
    found,               \* history: the blocks the walk of flight mode has found
    before,              \* history: ... and those it found when flight mode began
    fault                \* what aborted the process

adapterVars == <<present, soft, hard>>
savedVars   == <<persist, prev_soft>>
daemonVars  == <<flight_mode, invocation, kind, target, ready, pending_block>>
fmVars      == <<fm_block, block_index, initial_state, final_state>>
history     == <<accepted, announced, found, before>>
vars == <<adapterVars, walk, stale, savedVars, daemonVars, fmVars, client,
          history, fault>>

Faults == {"task_mismatch", "node_freed", "device_gone", "null_killswitch"}
Walk(by, block) == [by |-> by, block |-> block]
NoWalk == Walk("none", FALSE)

TypeOK ==
    /\ present \subseteq Types
    /\ soft \in [Types -> BOOLEAN]
    /\ hard \in [Types -> BOOLEAN]
    /\ walk \in [Types -> [by : {"none", "null", "block", "flight"}, block : BOOLEAN]]
    /\ stale \in [Types -> SUBSET Faults]
    /\ persist \in [Types \cup {ALL} -> BOOLEAN]
    /\ prev_soft \in [Types -> BOOLEAN]
    /\ flight_mode \in BOOLEAN
    /\ invocation \in Clients \cup {NULL}
    /\ kind \in {"none", "Block", "BlockIdx", "FlightMode"}
    /\ target \in Types \cup {ALL}
    /\ ready \in BOOLEAN
    /\ pending_block \in BOOLEAN
    /\ fm_block \in BOOLEAN
    /\ block_index \in 1..(N + 1)
    /\ initial_state \in [Types -> KillswitchState]
    /\ final_state \in [Types -> BOOLEAN]
    /\ client \in [Clients -> {"idle", "waiting", "ok", "error"}]
    /\ accepted \in BOOLEAN
    /\ announced \in BOOLEAN
    /\ found \in [Types -> SUBSET {"soft", "hard"}]
    /\ before \in [Types -> SUBSET {"soft", "hard"}]
    /\ fault \in Faults \cup {"none"}

NoData == [t \in Types |-> UNBLOCKED]      \* g_try_new0
AllFalse == [t \in Types |-> FALSE]
NoBlocks == [t \in Types |-> {}]

Init ==
    /\ present = {}
    /\ soft = AllFalse
    /\ hard = AllFalse
    /\ walk = [t \in Types |-> NoWalk]
    /\ stale = [t \in Types |-> {}]
    /\ persist = [t \in Types \cup {ALL} |-> FALSE]
    /\ prev_soft = AllFalse
    /\ flight_mode = FALSE
    /\ invocation = NULL
    /\ kind = "none"
    /\ target = ALL
    /\ ready = FALSE
    /\ pending_block = FALSE
    /\ fm_block = FALSE
    /\ block_index = 1
    /\ initial_state = NoData
    /\ final_state = AllFalse
    /\ client = [c \in Clients |-> "idle"]
    /\ accepted = FALSE
    /\ announced = FALSE
    /\ found = NoBlocks
    /\ before = NoBlocks
    /\ fault = "none"

-----------------------------------------------------------------------------
(* The saved file.  Every set rewrites it as a whole.                      *)

\* With strict flight mode nothing is saved for WWAN but flight mode itself.
Unsaved(t) == t = WWAN /\ strict_flight_mode

set_persist_state(saved, t, block) ==
    IF Unsaved(t) THEN saved ELSE [saved EXCEPT ![t] = block]

\* Mutant: ALL stands for WLAN, as it does in get_state.
get_persist_state_AllIsWlan(saved, t) == saved[IF t = ALL THEN WLAN ELSE t]

get_persist_state(saved, t) == saved[IF Unsaved(t) THEN ALL ELSE t]

\* Mutant: the wrong key of the file.
get_prev_soft_WrongKey(t) == ~ Unsaved(t) /\ persist[t]

get_prev_soft(t) == ~ Unsaved(t) /\ prev_soft[t]

-----------------------------------------------------------------------------
(* The killswitches.                                                       *)

\* urf_arbitrator_get_state; ALL stands for WLAN.
get_state(t) ==
    LET u == IF t = ALL THEN WLAN ELSE t IN
    IF u \in present THEN event_to_state(soft[u], hard[u]) ELSE NO_ADAPTER

\* urf_killswitch_set_software_blocked on the killswitches T that have devices,
\* given the calls in progress wk: block is a function of the type.
Called(wk, T, by, block) ==
    [t \in Types |-> IF t \in T THEN Walk(by, block[t]) ELSE wk[t]]

\* A call in progress is overwritten: its answer will not match any more.
Overwritten(wk, T) ==
    [t \in Types |-> IF t \in T /\ wk[t] # NoWalk
                     THEN stale[t] \cup {"task_mismatch"} ELSE stale[t]]

-----------------------------------------------------------------------------
(* The answer to the client.                                               *)

\* Mutant: a request that fails stays in progress.
Complete_ErrorKeeps(reply) ==
    /\ client' = [client EXCEPT ![invocation] = reply]
    /\ invocation' = IF reply = "ok" THEN NULL ELSE invocation
    /\ kind' = "none"
    /\ ready' = FALSE
    /\ UNCHANGED <<target, pending_block>>

\* The end of block_cb, block_idx_cb and flight_mode_cb of the daemon.
Complete(reply) ==
    /\ client' = [client EXCEPT ![invocation] = reply]
    /\ invocation' = NULL
    /\ kind' = "none"
    /\ ready' = FALSE
    /\ UNCHANGED <<target, pending_block>>

\* block_cb and block_idx_cb; wk is the rest of the calls in progress.
BlockDone(ok, wk) ==
    /\ walk' = wk
    /\ persist' = IF ok THEN set_persist_state(persist, target, pending_block)
                  ELSE persist
    /\ Complete(IF ok THEN "ok" ELSE "error")
    /\ UNCHANGED <<adapterVars, stale, prev_soft, flight_mode, fmVars, history, fault>>

-----------------------------------------------------------------------------
(* The walk of flight mode over the types.                                 *)

Ahead(i) == {t \in present : t >= i}

\* The blocks of a type's adapter, for the history: both of them, where the state
\* shows a soft block only without a hard one.
Blocks(t) == {b \in {"soft", "hard"} : t \in present /\ IF b = "soft" THEN soft[t] ELSE hard[t]}

\* handle_flight_mode_killswitch, again and again up to the next type that has
\* an adapter, which is called; wk are the calls in progress.
handle_flight_mode(from, block, wk, init, final) ==
    LET next == Min(Ahead(from))
        seen == from..next
    IN  /\ initial_state' = [t \in Types |-> IF t \in seen THEN get_state(t) ELSE init[t]]
        /\ final_state' = [t \in Types |->
                             IF t \in seen
                             THEN block \/ (t = next /\ get_prev_soft(t))
                             ELSE final[t]]
        /\ block_index' = next + 1
        /\ fm_block' = block
        /\ walk' = Called(wk, {next}, "flight", final_state')
        /\ stale' = Overwritten(wk, {next})
        /\ found' = [t \in Types |-> IF t \in seen THEN Blocks(t) ELSE found[t]]

\* What the end of a flight mode saves for the types, all or the first n saves:
\* prev-soft and soft of type 1, then of type 2, ...
LastState(t) == IF t >= block_index THEN NO_ADAPTER ELSE initial_state[t]
LastFinal(t) == IF t >= block_index THEN fm_block ELSE final_state[t]

\* Mutant: remembered when flight mode goes off, too.
FinalPrevSoft_Always(n) ==
    [t \in Types |-> IF Unsaved(t) \/ n < 2 * t - 1 THEN prev_soft[t]
                     ELSE LastState(t) = SOFT_BLOCKED]

FinalPrevSoft(n) ==
    [t \in Types |-> IF Unsaved(t) \/ n < 2 * t - 1 THEN prev_soft[t]
                     ELSE fm_block /\ LastState(t) = SOFT_BLOCKED]
FinalPersist(n) ==
    [t \in Types \cup {ALL} |->
        IF t = ALL \/ Unsaved(t) \/ n < 2 * t THEN persist[t] ELSE LastFinal(t)]

\* The file after the save of ALL that follows, and what was found, for the history.
FinalFile == [FinalPersist(2 * N) EXCEPT ![ALL] = pending_block]
FinalBefore == IF fm_block THEN found ELSE NoBlocks

\* No adapter is left: arbitrator and daemon finish, fm_task_data is freed.
FlightModeDone(wk) ==
    /\ prev_soft' = FinalPrevSoft(2 * N)
    /\ persist' = FinalFile
    /\ flight_mode' = pending_block
    /\ announced' = pending_block
    /\ found' = NoBlocks
    /\ before' = FinalBefore
    /\ walk' = wk
    /\ block_index' = N + 1
    /\ initial_state' = NoData
    /\ final_state' = AllFalse
    /\ Complete("ok")
    /\ UNCHANGED <<adapterVars, stale, fm_block, accepted, fault>>

\* Mutant: the loop ends one type too early.
Switched_OffByOne == {t \in Types : t < block_index - 2}

\* The types before the one that failed, the last that was called.
Switched == {t \in Types : t < block_index - 1}

\* The undo saves "not blocked" for those of them, up to type n, without an adapter.
Absent == {t \in Switched : initial_state[t] = NO_ADAPTER}
FailedPersist(n) ==
    [t \in Types \cup {ALL} |->
        IF t \in Absent /\ t <= n /\ ~ Unsaved(t) THEN FALSE ELSE persist[t]]

\* An adapter failed: the types before it get their first state back as if it were
\* the boolean to block, without a task.
FlightModeFailed(wk) ==
    LET undo == (Switched \cap present) \ Absent
    IN  /\ block_index' = block_index - 1
        /\ walk' = Called(wk, undo, "null", [t \in Types |-> initial_state[t] # UNBLOCKED])
        /\ stale' = Overwritten(wk, undo)
        /\ persist' = FailedPersist(N)
        /\ found' = NoBlocks
        /\ initial_state' = NoData
        /\ final_state' = AllFalse
        /\ Complete("error")
        /\ UNCHANGED <<adapterVars, prev_soft, flight_mode, fm_block, accepted, announced,
                       before, fault>>

\* The arbitrator's flight_mode_cb.
FlightModeStep(ok, wk) ==
    \/ /\ ok /\ Ahead(block_index) # {}
       /\ handle_flight_mode(block_index, fm_block, wk, initial_state, final_state)
       /\ UNCHANGED <<adapterVars, savedVars, daemonVars, client, accepted,
                      announced, before, fault>>
    \/ /\ ok /\ Ahead(block_index) = {}
       /\ FlightModeDone(wk)
    \/ /\ ~ ok
       /\ FlightModeFailed(wk)

-----------------------------------------------------------------------------
(* The requests.                                                           *)

\* What the three methods have in common: without any device there is no reply;
\* polkit or the checks of the arguments refuse; so does a request in progress.
Unanswered(c) ==
    /\ present = {}
    /\ client' = [client EXCEPT ![c] = "waiting"]

Refused(c) ==
    /\ present # {}
    /\ client' = [client EXCEPT ![c] = "error"]

Rest(c) ==
    /\ Unanswered(c) \/ Refused(c)
    /\ UNCHANGED <<adapterVars, walk, stale, savedVars, daemonVars, fmVars,
                   history, fault>>

\* A state that is already the one asked for.
IsBlock(s, block) == s = IF block THEN SOFT_BLOCKED ELSE UNBLOCKED

AlreadySo(c) ==
    /\ client' = [client EXCEPT ![c] = "ok"]
    /\ UNCHANGED <<adapterVars, walk, stale, savedVars, daemonVars, fmVars,
                   history, fault>>

Accept(c, callback, t, block) ==
    /\ invocation = NULL
    /\ client' = [client EXCEPT ![c] = "waiting"]
    /\ invocation' = c
    /\ kind' = callback
    /\ target' = t
    /\ pending_block' = block
    /\ accepted' = block

CanCall(c) == fault = "none" /\ client[c] # "waiting"

\* Block(t, block).  There is no killswitch for ALL.
Block(c, t, block) ==
    /\ CanCall(c)
    /\ present # {}
    /\ invocation = NULL
    /\ \/ /\ IsBlock(get_state(t), block)
          /\ AlreadySo(c)
       \/ /\ ~ IsBlock(get_state(t), block)
          /\ Accept(c, "Block", t, block)
          /\ walk' = Called(walk, present \cap {t}, "block", [u \in Types |-> block])
          /\ stale' = Overwritten(walk, present \cap {t})
          /\ ready' = (t \notin present \cup {ALL})
          /\ fault' = IF t = ALL THEN "null_killswitch" ELSE fault
          /\ UNCHANGED <<adapterVars, savedVars, flight_mode, fmVars, announced, found, before>>

\* BlockIdx: the call goes to the device itself.
BlockIdx(c, t, block) ==
    /\ CanCall(c)
    /\ t \in present
    /\ invocation = NULL
    /\ \/ /\ IsBlock(get_state(t), block)
          /\ AlreadySo(c)
       \/ /\ ~ IsBlock(get_state(t), block)
          /\ Accept(c, "BlockIdx", t, block)
          /\ UNCHANGED <<adapterVars, walk, stale, savedVars, flight_mode, ready,
                         fmVars, announced, found, before, fault>>

\* Mutant: a request for the mode it is in walks over the adapters again.
FlightMode_Again(c, block) ==
    /\ CanCall(c)
    /\ present # {}
    /\ Accept(c, "FlightMode", ALL, block)
    /\ handle_flight_mode(1, block, walk, NoData, AllFalse)
    /\ UNCHANGED <<adapterVars, savedVars, flight_mode, ready, announced, before, fault>>

\* FlightMode(block): the walk starts with the first type that has an adapter.
FlightMode(c, block) ==
    /\ CanCall(c)
    /\ present # {}
    /\ invocation = NULL
    /\ \/ /\ block = flight_mode
          /\ AlreadySo(c)
       \/ /\ block # flight_mode
          /\ Accept(c, "FlightMode", ALL, block)
          /\ handle_flight_mode(1, block, walk, NoData, AllFalse)
          /\ UNCHANGED <<adapterVars, savedVars, flight_mode, ready, announced, before,
                         fault>>

\* Mutant: the value is stored before the check for a request in progress.
Reject_Late(c) ==
    /\ CanCall(c)
    /\ Unanswered(c) \/ Refused(c)
    /\ pending_block' \in BOOLEAN
    /\ UNCHANGED <<adapterVars, walk, stale, savedVars, flight_mode, invocation,
                   kind, target, ready, fmVars, history, fault>>

\* Any of the three when it is not accepted.
Reject(c) ==
    /\ CanCall(c)
    /\ Rest(c)

\* A key, when the session does not inhibit it: no request in progress stops it.
Key(k) ==
    /\ fault = "none"
    /\ get_state(k) # NO_ADAPTER
    /\ LET t == IF master_key THEN ALL ELSE k
           block == get_state(k) # SOFT_BLOCKED
       IN  /\ walk' = Called(walk, {t} \ {ALL}, "null", [u \in Types |-> block])
           /\ stale' = Overwritten(walk, {t} \ {ALL})
           /\ fault' = IF t = ALL THEN "null_killswitch" ELSE fault
    /\ UNCHANGED <<adapterVars, savedVars, daemonVars, fmVars, client, history>>

-----------------------------------------------------------------------------
(* Answers.                                                                *)

\* The call in progress on killswitch t ends.
WalkReturns(t) ==
    /\ fault = "none"
    /\ walk[t] # NoWalk
    /\ LET wk == [walk EXCEPT ![t] = NoWalk] IN
       \/ /\ walk[t].by = "null"
          /\ walk' = wk
          /\ UNCHANGED <<adapterVars, stale, savedVars, daemonVars, fmVars, client,
                         history, fault>>
       \/ /\ walk[t].by = "block"
          /\ \E ok \in BOOLEAN : BlockDone(ok, wk)
       \/ /\ walk[t].by = "flight"
          /\ \E ok \in BOOLEAN : FlightModeStep(ok, wk)

\* The deferred answer of a killswitch without devices.
ReadyReturns ==
    /\ fault = "none"
    /\ ready
    /\ BlockDone(TRUE, walk)

\* The device of a BlockIdx answers.
IdxReturns ==
    /\ fault = "none"
    /\ kind = "BlockIdx"
    /\ "device_gone" \notin stale[target]
    /\ \E ok \in BOOLEAN : BlockDone(ok, walk)

\* An answer that comes too late fails an assertion.
StaleReturns ==
    /\ fault = "none"
    /\ \E t \in Types : \E f \in stale[t] : fault' = f
    /\ UNCHANGED <<adapterVars, walk, stale, savedVars, daemonVars, fmVars, client,
                   history>>

-----------------------------------------------------------------------------
(* The adapters.                                                           *)

\* The saved state is then applied to the new device, which may change later.
AddDevice(t) ==
    /\ fault = "none"
    /\ t \notin present
    /\ present' = present \cup {t}
    /\ \E s, h \in BOOLEAN :
         /\ h => t \in HardSwitches
         /\ soft' = [soft EXCEPT ![t] = s]
         /\ hard' = [hard EXCEPT ![t] = h]
    /\ UNCHANGED <<walk, stale, savedVars, daemonVars, fmVars, client, history, fault>>

\* The adapter changes.  update_killswitch saves the state of a kernel device,
\* unless force_sync makes it correct the device; a modem's is not saved.
ChangeDevice(t) ==
    /\ fault = "none"
    /\ t \in present
    /\ \E s, h \in BOOLEAN :
         /\ h => t \in HardSwitches
         /\ <<s, h>> # <<soft[t], hard[t]>>
         /\ soft' = [soft EXCEPT ![t] = s]
         /\ hard' = [hard EXCEPT ![t] = h]
         /\ persist' = IF t \in Modems \/ force_sync THEN persist
                       ELSE set_persist_state(persist, t, s)
    /\ UNCHANGED <<present, walk, stale, prev_soft, daemonVars, fmVars, client,
                   history, fault>>

\* The list node and the device go; the answers they owe do not.
RemoveDevice(t) ==
    /\ fault = "none"
    /\ Removals
    /\ t \in present
    /\ present' = present \ {t}
    /\ soft' = [soft EXCEPT ![t] = FALSE]
    /\ hard' = [hard EXCEPT ![t] = FALSE]
    /\ walk' = [walk EXCEPT ![t] = NoWalk]
    /\ stale' = [stale EXCEPT ![t] = @
                   \cup (IF walk[t] # NoWalk THEN {"node_freed"} ELSE {})
                   \cup (IF kind = "BlockIdx" /\ target = t THEN {"device_gone"} ELSE {})]
    /\ UNCHANGED <<savedVars, daemonVars, fmVars, client, history, fault>>

-----------------------------------------------------------------------------
(* Crashes.                                                                *)

\* The daemon starts again with the saved file; the calls it owed an answer to
\* fail on the bus.
Restarted(saved, prev) ==
    /\ persist' = saved
    /\ prev_soft' = prev
    /\ flight_mode' = get_persist_state(saved, ALL)
    /\ present' = {}
    /\ soft' = AllFalse
    /\ hard' = AllFalse
    /\ walk' = [t \in Types |-> NoWalk]
    /\ stale' = [t \in Types |-> {}]
    /\ invocation' = NULL
    /\ kind' = "none"
    /\ target' = ALL
    /\ ready' = FALSE
    /\ pending_block' = FALSE
    /\ fm_block' = FALSE
    /\ block_index' = 1
    /\ initial_state' = NoData
    /\ final_state' = AllFalse
    /\ client' = [c \in Clients |-> IF client[c] = "waiting" THEN "error" ELSE client[c]]
    /\ fault' = "none"
    /\ found' = NoBlocks
    /\ UNCHANGED accepted

\* After an abort (the service is respawned), or killed between two dispatches.
Restart ==
    /\ Crashes \/ fault # "none"
    /\ Restarted(persist, prev_soft)
    /\ UNCHANGED <<announced, before>>

\* Killed inside the dispatch that ends a flight mode.  When it succeeds: among the
\* 2 * N saves for the types; or when that of ALL was made too, with FlightModeChanged
\* sent or not, and the reply not.  When it fails: among the saves of the undo.
Torn ==
    /\ TornSaves
    /\ fault = "none"
    /\ \E t \in Types : walk[t].by = "flight"
    /\ \/ /\ Ahead(block_index) = {}
          /\ \E n \in 0..(2 * N) : Restarted(FinalPersist(n), FinalPrevSoft(n))
          /\ UNCHANGED <<announced, before>>
       \/ /\ Ahead(block_index) = {}
          /\ Restarted(FinalFile, FinalPrevSoft(2 * N))
          /\ announced' \in {announced, pending_block}
          /\ before' = FinalBefore
       \/ /\ \E n \in 0..N : Restarted(FailedPersist(n), prev_soft)
          /\ UNCHANGED <<announced, before>>

-----------------------------------------------------------------------------
Next ==
    \/ \E c \in Clients :
         \/ Reject(c)
         \/ \E block \in BOOLEAN :
              \/ FlightMode(c, block)
              \/ \E t \in BlockTypes : Block(c, t, block)
              \/ \E t \in Types : BlockIdx(c, t, block)
    \/ \E k \in Keys : Key(k)
    \/ \E t \in Types : WalkReturns(t) \/ AddDevice(t) \/ ChangeDevice(t) \/ RemoveDevice(t)
    \/ ReadyReturns
    \/ IdxReturns
    \/ StaleReturns
    \/ Restart
    \/ Torn

Spec == Init /\ [][Next]_vars

\* Every device answers (the kernel at once, oFono within the D-Bus timeout), the
\* main loop dispatches what is ready, the service manager restarts the daemon.
Fairness ==
    /\ \A t \in Types : WF_vars(WalkReturns(t))
    /\ WF_vars(ReadyReturns)
    /\ WF_vars(IdxReturns)
    /\ WF_vars(StaleReturns)
    /\ WF_vars(fault # "none" /\ Restart)

FairSpec == Spec /\ Fairness

-----------------------------------------------------------------------------
(* Properties.                                                             *)

\* The daemon resumes the flight mode that is in the file, and is never in another
\* one, whether it aborts, is killed between two dispatches, or inside the one that
\* ends a flight mode.
FlightModeKept == flight_mode = persist[ALL]

\* IsFlightMode, the saved file and the last FlightModeChanged agree, also after an
\* abort or a kill between two dispatches: the daemon resumes the flight mode its
\* clients were told of.  (Killed after the save of ALL and before FlightModeChanged
\* it resumes the new one, and nobody is told.)
FlightModeSaved ==
    /\ FlightModeKept
    /\ flight_mode = announced

\* The request in progress is in exactly one place: a killswitch's call, the
\* deferred answer of an empty killswitch, a device, or the walk of flight mode,
\* which is itself at one killswitch.  Otherwise an answer that is still to come
\* aborts the daemon.  A client is never forgotten.
Holders ==
    {<<"walk", t>> : t \in {u \in Types : walk[u].by \in {"block", "flight"}}}
    \cup (IF ready THEN {<<"ready", ALL>>} ELSE {})
    \cup (IF kind = "BlockIdx" /\ "device_gone" \notin stale[target]
          THEN {<<"device", target>>} ELSE {})

RequestOwned ==
    /\ invocation = NULL <=> kind = "none"
    /\ invocation = NULL => Holders = {}
    /\ invocation # NULL /\ fault = "none" =>
         /\ client[invocation] = "waiting"
         /\ \/ \E h \in Holders : Holders = {h}
            \/ Holders = {} /\ \E t \in Types : stale[t] # {}

\* What is remembered of the soft blocks before flight mode is only there while
\* flight mode is on: flight mode that failed, or was interrupted between two
\* dispatches, leaves nothing that a later one would restore.
PrevSoftOnlyInFlight == ~ flight_mode => \A t \in Types : ~ prev_soft[t]

\* The steps in which the daemon answers the request in progress.
Answers(reply) ==
    /\ invocation # NULL
    /\ invocation' = NULL
    /\ present # {} => present' # {}               \* it is not a restart
    /\ \E c \in Clients : c = invocation /\ client'[c] = reply

\* When Block or BlockIdx succeeds, the state saved for the type is the one that
\* client asked for, whatever was refused to the others meanwhile.
OkSaves ==
    [][ (Answers("ok") /\ kind \in {"Block", "BlockIdx"})
        => persist'[target] = IF Unsaved(target) THEN persist[target] ELSE accepted ]_vars

\* The types whose soft block flight mode can restore.
Lossless(t) == ~ Unsaved(t) /\ before[t] # {"soft", "hard"}

AsksBack ==
    flight_mode =>
        \A t \in Types :
            (walk[t].by = "flight" /\ Lossless(t)) => walk[t].block = ("soft" \in before[t])

PutBack ==
    (flight_mode /\ ~ flight_mode') =>
        \A t \in 1..(block_index - 1) :
            (initial_state[t] # NO_ADAPTER /\ Lossless(t))
            => persist'[t] = ("soft" \in before[t])

\* Flight mode off puts back the soft blocks that flight mode on had found, across
\* failed attempts, keys and restarts: it asks each adapter for them, and they are what
\* it saves in the end.  Not of WWAN in strict flight mode, of which nothing is saved,
\* nor of a type whose adapter was soft and hard blocked: its state was HARD_BLOCKED, and
\* the soft block is not remembered.
FlightOffRestores == [][AsksBack /\ PutBack]_vars

\* The types a flight mode that fails in this step had switched, and whose adapter is
\* still there.
FlightModeFails == Answers("error") /\ kind = "FlightMode" /\ present # {}
ToRestore == {t \in present : t < block_index - 1 /\ initial_state[t] # NO_ADAPTER}

\* Flight mode that fails changes neither flight mode nor what is remembered, and
\* asks every type it had switched to give up its soft block or to take it back, as it
\* had found it.  Only a type that was hard blocked may be asked for a soft block it had
\* not, as the state is given for the boolean.
FailureUndoes ==
    [][ FlightModeFails
        => /\ UNCHANGED <<flight_mode, prev_soft>>
           /\ \A t \in ToRestore :
                /\ walk'[t].by = "null"
                /\ "soft" \in found[t] => walk'[t].block
                /\ walk'[t].block => found[t] # {} ]_vars

\* The flight mode seen by clients is the abstract one.
FM == INSTANCE UrfFlightMode WITH
        requested <- IF kind = "FlightMode" THEN {pending_block} ELSE {},
        serving <- present # {}
FlightModeSafe == FM!Safe
FlightModeImplemented == FM!Spec

\* A request that was accepted does not stay in progress for ever.
RequestEnds == \A c \in Clients : invocation = c ~> invocation # c
=============================================================================
