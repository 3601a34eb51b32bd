---------------------------- MODULE UrfArbitrator ----------------------------
(***************************************************************************)
(* The kernel's rfkill devices as urfkilld keeps them (the second half of  *)
(* urf-arbitrator.c with urf-device-kernel.c): the events read from        *)
(* /dev/rfkill, the device objects made from them, what the options        *)
(* force_sync and persist write back, and the states that are saved.       *)
(*                                                                         *)
(* The kernel queues its events for each open file, in order, and numbers  *)
(* its devices upwards, so that an index is used once.  A write with       *)
(* RFKILL_OP_CHANGE_ALL sets every device of a type; only those that it    *)
(* changes give an event.                                                  *)
(***************************************************************************)
EXTENDS UrfTypes, SequencesExt

CONSTANTS
    Devices,        \* the rfkill indices the kernel may give
    Types,          \* the rfkill types (WWAN only without strict flight mode)
    TypeOf,         \* the type of each device
    Platform,       \* the devices of platform drivers
    MaxInputs       \* bound: changes from outside, restarts and clients' calls

None == [type |-> "none"]

ASSUME ArbitratorAssumption ==
    /\ TypeOf \in [Devices -> Types]
    /\ IsFiniteSet(Devices)
    /\ Platform \subseteq Devices
    /\ "none" \notin Types
    /\ MaxInputs \in Nat

VARIABLES
    kernel,         \* the kernel: its devices, and the events not yet read
    devices,        \* the indices in priv->devices
    object,         \* soft and hard of each UrfDeviceKernel
    saved,          \* "soft" of each type in the persistence file
    request,        \* the Block or BlockIdx call that is being carried out
    config,         \* the options force_sync and persist
    inputs,         \* how many there have been
    single          \* history: a program has changed one device on its own

history == <<inputs, single>>
vars == <<kernel, devices, object, saved, request, config, history>>

Blocks == [soft : BOOLEAN, hard : BOOLEAN]
Event == [op : {"ADD", "DEL", "CHANGE"}, idx : Devices, soft : BOOLEAN, hard : BOOLEAN]

TypeOK ==
    /\ kernel.present \subseteq Devices
    /\ kernel.gone \subseteq Devices \ kernel.present
    /\ kernel.block \in [Devices -> Blocks]
    /\ kernel.queue \in Seq(Event)
    /\ devices \subseteq Devices
    /\ object \in [Devices -> Blocks]
    /\ saved \in [Types -> BOOLEAN]
    /\ request \in {None} \cup [type : Types, block : BOOLEAN, left : SUBSET devices]
    /\ config \in [force_sync : BOOLEAN, persist : BOOLEAN]
    /\ inputs \in 0..MaxInputs
    /\ single \in BOOLEAN

-----------------------------------------------------------------------------
(* The kernel.                                                             *)

EventOf(op, d, block) ==
    [op |-> op, idx |-> d, soft |-> block[d].soft, hard |-> block[d].hard]

\* The events for the devices of a set, in the order of the kernel's list.
EventsOf(op, set, block) ==
    LET order == SetToSeq(set) IN
    [i \in 1..Len(order) |-> EventOf(op, order[i], block)]

\* RFKILL_OP_CHANGE_ALL: the devices of type t that differ are set.
CHANGE_ALL(k, t, blocked) ==
    LET changed == {d \in k.present : TypeOf[d] = t /\ k.block[d].soft # blocked}
        block == [d \in Devices |-> IF d \in changed
                                    THEN [k.block[d] EXCEPT !.soft = blocked]
                                    ELSE k.block[d]]
    IN [k EXCEPT !.block = block, !.queue = @ \o EventsOf("CHANGE", changed, block)]

\* A device is plugged in, in any state.
Plug(d) ==
    /\ d \notin kernel.present \cup kernel.gone
    /\ \E b \in Blocks : LET block == [kernel.block EXCEPT ![d] = b] IN
         kernel' = [kernel EXCEPT !.present = @ \cup {d}, !.block = block,
                                  !.queue = Append(@, EventOf("ADD", d, block))]
    /\ UNCHANGED single

Unplug(d) ==
    /\ d \in kernel.present
    /\ kernel' = [kernel EXCEPT !.present = @ \ {d}, !.gone = @ \cup {d},
                                !.queue = Append(@, EventOf("DEL", d, kernel.block))]
    /\ UNCHANGED single

\* The hardware switch of a device.
HardSwitch(d) ==
    /\ d \in kernel.present
    /\ LET block == [kernel.block EXCEPT ![d].hard = ~ @] IN
         kernel' = [kernel EXCEPT !.block = block,
                                  !.queue = Append(@, EventOf("CHANGE", d, block))]
    /\ UNCHANGED single

\* Another program writes RFKILL_OP_CHANGE, or a driver changes its device.
ChangeOne(d) ==
    /\ d \in kernel.present
    /\ LET block == [kernel.block EXCEPT ![d].soft = ~ @] IN
         kernel' = [kernel EXCEPT !.block = block,
                                  !.queue = Append(@, EventOf("CHANGE", d, block))]
    /\ single' = TRUE

\* Another program writes RFKILL_OP_CHANGE_ALL.
ChangeType(t) ==
    /\ \E blocked \in BOOLEAN : kernel' = CHANGE_ALL(kernel, t, blocked)
    /\ UNCHANGED single

-----------------------------------------------------------------------------
(* The arbitrator.  An action is one dispatch of the main loop.            *)

\* urf_arbitrator_startup: opening /dev/rfkill gives an ADD for every device.
startup(k) == [k EXCEPT !.queue = EventsOf("ADD", k.present, k.block)]

Init ==
    /\ \E present \in SUBSET Devices, block \in [Devices -> Blocks] :
         /\ \A d \in Devices \ present : block[d] = [soft |-> FALSE, hard |-> FALSE]
         /\ kernel = startup([present |-> present, gone |-> {}, block |-> block,
                              queue |-> <<>>])
    /\ devices = {}
    /\ object = [d \in Devices |-> [soft |-> FALSE, hard |-> FALSE]]
    /\ saved \in [Types -> BOOLEAN]
    /\ request = None
    /\ config \in [force_sync : BOOLEAN, persist : BOOLEAN]
    /\ inputs = 0
    /\ single = FALSE

\* urf_device_kernel's set_soft: the whole type is written, not the device.
set_soft(k, d, blocked) == CHANGE_ALL(k, TypeOf[d], blocked)

\* Mutant: the devices of platform drivers are forced, and no others.
AddedWrites_Platform(k, d, soft) ==
    LET forced == IF config.force_sync /\ d \in Platform
                  THEN set_soft(k, d, soft) ELSE k
    IN IF config.persist THEN set_soft(forced, d, saved[TypeOf[d]]) ELSE forced

\* What urf_arbitrator_add_device writes: the device's own state to its type if
\* states are forced, then the saved state of the type if states persist.
AddedWrites(k, d, soft) ==
    LET forced == IF config.force_sync /\ d \notin Platform
                  THEN set_soft(k, d, soft) ELSE k
    IN IF config.persist THEN set_soft(forced, d, saved[TypeOf[d]]) ELSE forced

add_killswitch(k, e) ==
    /\ e.op = "ADD"
    /\ \/ /\ e.idx \in devices
          /\ kernel' = k
          /\ UNCHANGED <<devices, object>>
       \/ /\ e.idx \notin devices
          /\ devices' = devices \cup {e.idx}
          /\ object' = [object EXCEPT ![e.idx] = [soft |-> e.soft, hard |-> e.hard]]
          /\ kernel' = AddedWrites(k, e.idx, e.soft)
    /\ UNCHANGED <<saved, request>>

\* Mutant: a device that goes is still to be asked by the walk.
remove_killswitch_StillAsked(k, e) ==
    /\ e.op = "DEL"
    /\ devices' = devices \ {e.idx}
    /\ kernel' = k
    /\ UNCHANGED <<object, saved, request>>

remove_killswitch(k, e) ==
    /\ e.op = "DEL"
    /\ devices' = devices \ {e.idx}
    /\ kernel' = k
    /\ request' = IF request = None THEN None ELSE [request EXCEPT !.left = @ \ {e.idx}]
    /\ UNCHANGED <<object, saved>>

\* Mutant: a hard block inverts the soft block instead of setting it.
ChangedWrites_Inverts(k, e) ==
    IF e.hard THEN set_soft(k, e.idx, ~ e.soft)
    ELSE IF object[e.idx].hard /\ ~ e.hard THEN set_soft(k, e.idx, FALSE)
    ELSE k

\* The forced answer to a change: a hard block is followed by the soft block.
ChangedWrites(k, e) ==
    IF e.hard /\ ~ e.soft THEN set_soft(k, e.idx, TRUE)
    ELSE IF object[e.idx].hard /\ ~ e.hard THEN set_soft(k, e.idx, FALSE)
    ELSE k

\* Mutant: a change is one of the state, in which a hard block hides the soft one.
update_killswitch_ByState(k, e) ==
    /\ e.op = "CHANGE"
    /\ \/ /\ \/ e.idx \notin devices
             \/ event_to_state(object[e.idx].soft, object[e.idx].hard)
                  = event_to_state(e.soft, e.hard)
          /\ kernel' = k
          /\ UNCHANGED <<object, saved>>
       \/ /\ e.idx \in devices
          /\ event_to_state(object[e.idx].soft, object[e.idx].hard)
                # event_to_state(e.soft, e.hard)
          /\ object' = [object EXCEPT ![e.idx] = [soft |-> e.soft, hard |-> e.hard]]
          /\ \/ /\ config.force_sync
                /\ kernel' = ChangedWrites(k, e)
                /\ UNCHANGED saved
             \/ /\ ~ config.force_sync
                /\ kernel' = k
                /\ saved' = [saved EXCEPT ![TypeOf[e.idx]] = e.soft]
    /\ UNCHANGED <<devices, request>>

update_killswitch(k, e) ==
    /\ e.op = "CHANGE"
    /\ \/ /\ e.idx \notin devices \/ object[e.idx] = [soft |-> e.soft, hard |-> e.hard]
          /\ kernel' = k
          /\ UNCHANGED <<object, saved>>
       \/ /\ e.idx \in devices
          /\ object[e.idx] # [soft |-> e.soft, hard |-> e.hard]
          /\ object' = [object EXCEPT ![e.idx] = [soft |-> e.soft, hard |-> e.hard]]
          /\ \/ /\ config.force_sync
                /\ kernel' = ChangedWrites(k, e)
                /\ UNCHANGED saved
             \/ /\ ~ config.force_sync
                /\ kernel' = k
                /\ saved' = [saved EXCEPT ![TypeOf[e.idx]] = e.soft]
    /\ UNCHANGED <<devices, request>>

\* event_cb and process_event: one event is read and handled.
event_cb ==
    /\ kernel.queue # <<>>
    /\ LET e == Head(kernel.queue)
           k == [kernel EXCEPT !.queue = Tail(@)]
       IN add_killswitch(k, e) \/ remove_killswitch(k, e) \/ update_killswitch(k, e)
    /\ UNCHANGED <<config, history>>

-----------------------------------------------------------------------------
(* The calls of clients, as far as they write and save.                    *)

OfType(t) == {d \in devices : TypeOf[d] = t}
get_state(d) == event_to_state(object[d].soft, object[d].hard)
get_type_state(t) ==
    KillswitchStateOf({get_state(d) : d \in OfType(t) \cap Platform},
                      {get_state(d) : d \in OfType(t) \ Platform})

Differs(state, block) == state # (IF block THEN SOFT_BLOCKED ELSE UNBLOCKED)

\* Block: the killswitch asks its first device, and the others later.
urf_daemon_block(t, block) ==
    /\ request = None
    /\ devices # {}
    /\ Differs(get_type_state(t), block)
    /\ \/ /\ OfType(t) = {}
          /\ request' = [type |-> t, block |-> block, left |-> {}]
          /\ UNCHANGED kernel
       \/ \E d \in OfType(t) :
            /\ request' = [type |-> t, block |-> block, left |-> OfType(t) \ {d}]
            /\ kernel' = set_soft(kernel, d, block)
    /\ UNCHANGED <<devices, object, saved>>

\* BlockIdx asks one device.
urf_daemon_block_idx(d, block) ==
    /\ request = None
    /\ d \in devices
    /\ Differs(get_state(d), block)
    /\ request' = [type |-> TypeOf[d], block |-> block, left |-> {}]
    /\ kernel' = set_soft(kernel, d, block)
    /\ UNCHANGED <<devices, object, saved>>

\* A device has answered: the killswitch asks the next one ...
soft_block_cb ==
    /\ request # None
    /\ \E d \in request.left :
         /\ kernel' = set_soft(kernel, d, request.block)
         /\ request' = [request EXCEPT !.left = @ \ {d}]
    /\ UNCHANGED <<devices, object, saved, config, history>>

\* ... or the call has succeeded, and its state is saved.
block_cb ==
    /\ request # None
    /\ request.left = {}
    /\ saved' = [saved EXCEPT ![request.type] = request.block]
    /\ request' = None
    /\ UNCHANGED <<kernel, devices, object, config, history>>

Call ==
    /\ \E block \in BOOLEAN :
         \/ \E t \in Types : urf_daemon_block(t, block)
         \/ \E d \in Devices : urf_daemon_block_idx(d, block)
    /\ UNCHANGED <<config, single>>

-----------------------------------------------------------------------------

\* urfkilld is killed and started again; only the file is left.
Restart ==
    /\ devices' = {}
    /\ request' = None
    /\ kernel' = startup(kernel)
    /\ UNCHANGED <<object, saved, config, single>>

Outside ==
    /\ \/ \E d \in Devices : Plug(d) \/ Unplug(d) \/ HardSwitch(d) \/ ChangeOne(d)
       \/ \E t \in Types : ChangeType(t)
    /\ UNCHANGED <<devices, object, saved, request, config>>

Input ==
    /\ inputs < MaxInputs
    /\ inputs' = inputs + 1
    /\ Outside \/ Restart \/ Call

Next == event_cb \/ soft_block_cb \/ block_cb \/ Input

Spec == Init /\ [][Next]_vars

\* The main loop reads what there is to read and runs what has returned.  This is weak
\* fairness of each of the three, with the states in which it is enabled written out
\* (TLC takes several times as long to find them by itself).
Asking == request # None /\ request.left # {}
Asked == request # None /\ request.left = {}

Fairness ==
    /\ []<>(kernel.queue = <<>>) \/ []<><<event_cb>>_vars
    /\ []<>(~ Asking) \/ []<><<soft_block_cb>>_vars
    /\ []<>(~ Asked) \/ []<><<block_cb>>_vars

FairSpec == Spec /\ Fairness

-----------------------------------------------------------------------------
(* Properties.                                                             *)

Settled == kernel.queue = <<>> /\ request = None

\* Once all events are read the device objects are the kernel's devices with the
\* kernel's states, through startup, devices that come and go with events about
\* them still unread, and what is written back while handling them.
InSync ==
    kernel.queue = <<>> =>
        /\ devices = kernel.present
        /\ \A d \in devices : object[d] = kernel.block[d]

\* With either option, the devices of a type (for force_sync those that are not
\* of a platform driver) agree once the events are read, whatever state they were
\* plugged in with and however that raced with other writes, unless some program
\* sets a device on its own.
TypeInSync ==
    Settled /\ ~ single => \A d, e \in kernel.present :
        /\ TypeOf[d] = TypeOf[e]
        /\ config.persist \/ (config.force_sync /\ {d, e} \cap Platform = {})
        => kernel.block[d].soft = kernel.block[e].soft

\* What urfkilld writes back does not feed on the events it causes: all events
\* get read, the outside permitting.
Settles == []<>Settled
=============================================================================
