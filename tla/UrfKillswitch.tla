---------------------------- MODULE UrfKillswitch ----------------------------
(***************************************************************************)
(* One killswitch (urf-killswitch.c): the list of devices of one rfkill    *)
(* type, the aggregated state it publishes, and the asynchronous walk that *)
(* asks one device after the other to block or unblock.  The devices are   *)
(* the kernel ones (urf-device-kernel.c), whose answer is queued for a     *)
(* later iteration of the main loop, and the oFono modems                  *)
(* (urf-device-ofono.c), whose answer is a D-Bus reply.                    *)
(*                                                                         *)
(* urfkilld is single threaded: an action is one dispatch of the GLib main *)
(* loop, with everything the handler calls.  A GTask that is returned in   *)
(* the iteration that created it is completed by a later dispatch, in      *)
(* order (deferred); one that is returned later runs its callback at once. *)
(*                                                                         *)
(* What the kernel and oFono report is unconstrained: any device may       *)
(* change, appear and disappear at any time.                               *)
(***************************************************************************)
EXTENDS UrfTypes, SequencesExt

CONSTANTS
    Kernel,     \* kernel rfkill devices of this type
    Platform,   \* those that belong to a platform driver
    Ofono,      \* oFono modems of this type
    TaskIds,    \* the GTasks for one device that may be outstanding at once
    Persist,    \* the option "persist"
    NullCalls,  \* there are calls without a task: keys, flight mode's restore
    Removals    \* devices may disappear while a walk is in progress

Devices == Kernel \cup Ofono

NULL   == "NULL"     \* no GTask
FREED  == "FREED"    \* a GList node that has been removed from the list
IDLE   == "IDLE"     \* no SetProperty call is pending on the modem
PLAIN  == "PLAIN"    \* one is pending, without a task of the killswitch
CALLER == "CALLER"   \* the task of the caller of set_software_blocked

ASSUME KillswitchAssumption ==
    /\ Platform \subseteq Kernel
    /\ Kernel \cap Ofono = {}
    /\ TaskIds # {}
    /\ {NULL, FREED, IDLE, PLAIN, CALLER} \cap (TaskIds \cup Devices) = {}
    /\ {Persist, NullCalls, Removals} \subseteq BOOLEAN

VARIABLES
    devices,              \* priv->devices, in list order
    soft, hard,           \* what each device object believes of itself
    state,                \* priv->state, the cached aggregate
    announced,            \* the state the last PropertiesChanged carried
    set_block_task,       \* priv->set_block_task is the caller's task
    pending_device_task,  \* priv->pending_device_task
    node,                 \* user_data of each outstanding task: a list node
    deferred,             \* returned tasks the main loop has yet to dispatch
    online,               \* per modem: pending_set_online_cb and its task
    orphans,              \* tasks of SetProperty calls of removed modems
    caller,               \* what the caller of set_software_blocked knows
    walked, agreed,       \* history: devices in the list since the walk started,
                          \* and those that have answered with success
    fault                 \* the assertion that aborted the process

walkVars == <<set_block_task, pending_device_task, node, caller, walked, agreed>>
ioVars   == <<deferred, online, orphans>>
beliefs  == <<soft, hard>>
views    == <<state, announced>>
vars == <<devices, beliefs, views, walkVars, ioVars, fault>>

Done(t, ok) == [task |-> t, ok |-> ok]

TypeOK ==
    /\ devices \in Seq(Devices)
    /\ soft \in [Devices -> BOOLEAN]
    /\ hard \in [Devices -> BOOLEAN]
    /\ state \in KillswitchState
    /\ announced \in KillswitchState
    /\ set_block_task \in BOOLEAN
    /\ pending_device_task \in TaskIds \cup {NULL}
    /\ node \in [TaskIds -> Devices \cup {NULL, FREED}]
    /\ deferred \in Seq([task : TaskIds \cup {CALLER}, ok : BOOLEAN])
    /\ online \in [Ofono -> TaskIds \cup {IDLE, PLAIN}]
    /\ orphans \subseteq TaskIds
    /\ caller \in {"idle", "waiting", "ok", "error", "lost"}
    /\ walked \subseteq Devices
    /\ agreed \subseteq Devices
    /\ fault \in {"none", "node_freed", "task_mismatch"}

Init ==
    /\ devices = <<>>
    /\ soft = [d \in Devices |-> FALSE]
    /\ hard = [d \in Devices |-> FALSE]
    /\ state = NO_ADAPTER
    /\ announced = NO_ADAPTER
    /\ set_block_task = FALSE
    /\ pending_device_task = NULL
    /\ node = [t \in TaskIds |-> NULL]
    /\ deferred = <<>>
    /\ online = [o \in Ofono |-> IDLE]
    /\ orphans = {}
    /\ caller = "idle"
    /\ walked = {}
    /\ agreed = {}
    /\ fault = "none"

-----------------------------------------------------------------------------
(* The published state.                                                    *)

\* urf_device_get_state: an oFono modem has no hardware block.
get_state(d, s, h) == event_to_state(s[d], d \in Kernel /\ h[d])

StateOf(list, s, h) ==
    LET present == Range(list) IN
    KillswitchStateOf({get_state(d, s, h) : d \in present \cap Platform},
                      {get_state(d, s, h) : d \in present \ Platform})

\* Mutants: a refresh that returns early when the list is empty, and one that
\* takes the first adapter for no change.
state_refresh_EmptyKept ==
    /\ state' = IF devices' = <<>> THEN state ELSE StateOf(devices', soft', hard')
    /\ announced' = IF state' = state THEN announced ELSE state'

state_refresh_FirstSilent ==
    /\ state' = StateOf(devices', soft', hard')
    /\ announced' = IF devices' = <<>> \/ state' = state \/ state = NO_ADAPTER
                    THEN announced ELSE state'

\* The last thing every handler that touches the devices does.  An empty list
\* gives NO_ADAPTER silently; any other change of the state is signalled.
state_refresh ==
    /\ state' = StateOf(devices', soft', hard')
    /\ announced' = IF devices' = <<>> \/ state' = state
                    THEN announced ELSE state'

-----------------------------------------------------------------------------
(* The walk over the devices.                                              *)

\* Mutant: a modem that is waiting for oFono returns without returning the task.
set_soft_Silent(d, t, dfr, onl) ==
    \/ /\ d \in Kernel
       /\ \E ok \in BOOLEAN : deferred' = Append(dfr, Done(t, ok))
       /\ online' = onl
    \/ /\ d \in Ofono
       /\ online' = IF onl[d] = IDLE THEN [onl EXCEPT ![d] = t] ELSE onl
       /\ deferred' = dfr

\* urf_device_set_software_blocked with a task of this killswitch; dfr and onl
\* are the queue and the pending D-Bus calls before it.  A write to /dev/rfkill
\* succeeds or not at once, the answer is deferred; a modem that is waiting for
\* oFono refuses, any other sends SetProperty.
set_soft(d, t, dfr, onl) ==
    \/ /\ d \in Kernel
       /\ \E ok \in BOOLEAN : deferred' = Append(dfr, Done(t, ok))
       /\ online' = onl
    \/ /\ d \in Ofono /\ onl[d] = IDLE
       /\ online' = [onl EXCEPT ![d] = t]
       /\ deferred' = dfr
    \/ /\ d \in Ofono /\ onl[d] # IDLE
       /\ deferred' = Append(dfr, Done(t, FALSE))
       /\ online' = onl

Free(n) == {t \in TaskIds : n[t] = NULL}

\* A call with or without the task of a caller.  The pending task and the task
\* of an earlier caller are overwritten: the earlier caller is never answered.
set_software_blocked(withTask) ==
    \/ /\ devices # <<>>
       /\ \E t \in Free(node) :
            /\ pending_device_task' = t
            /\ node' = [node EXCEPT ![t] = Head(devices)]
            /\ set_soft(Head(devices), t, deferred, online)
       /\ set_block_task' = withTask
       /\ caller' = IF withTask THEN "waiting"
                    ELSE IF set_block_task THEN "lost" ELSE caller
       /\ walked' = Range(devices)
       /\ agreed' = {}
    \/ /\ devices = <<>>
       /\ deferred' = IF withTask THEN Append(deferred, Done(CALLER, TRUE))
                      ELSE deferred
       /\ caller' = IF withTask THEN "waiting" ELSE caller
       /\ UNCHANGED <<set_block_task, pending_device_task, node, online,
                      walked, agreed>>

\* Mutants: the error of a device is taken for a success, is not passed on, or
\* leaves the caller's task in place.
Answer_ErrorIsOk(ok) ==
    /\ caller' = IF set_block_task THEN "ok" ELSE caller
    /\ set_block_task' = FALSE
    /\ pending_device_task' = NULL
    /\ agreed' = IF ok THEN agreed \cup {node[pending_device_task]} ELSE agreed
    /\ UNCHANGED walked

Answer_ErrorIsLost(ok) ==
    /\ caller' = IF set_block_task /\ ok THEN "ok" ELSE caller
    /\ set_block_task' = FALSE
    /\ pending_device_task' = NULL
    /\ UNCHANGED <<walked, agreed>>

Answer_ErrorKeepsTask(ok) ==
    /\ caller' = IF set_block_task THEN (IF ok THEN "ok" ELSE "error") ELSE caller
    /\ set_block_task' = (set_block_task /\ ~ ok)
    /\ pending_device_task' = NULL
    /\ UNCHANGED <<walked, agreed>>

\* Answer the caller, if the walk still has one.
Answer(ok) ==
    /\ caller' = IF set_block_task THEN (IF ok THEN "ok" ELSE "error") ELSE caller
    /\ set_block_task' = FALSE
    /\ pending_device_task' = NULL
    /\ agreed' = IF ok THEN agreed \cup {node[pending_device_task]} ELSE agreed
    /\ UNCHANGED walked

\* The place of the list node that holds device d.
NodeOf(d) == CHOOSE i \in DOMAIN devices : devices[i] = d

\* The callback of task t: two assertions, then fail, finish or go on with the
\* next node.
soft_block_cb(t, ok, dfr, onl) ==
    IF node[t] = FREED \/ t # pending_device_task
    THEN /\ fault' = IF node[t] = FREED THEN "node_freed" ELSE "task_mismatch"
         /\ UNCHANGED <<devices, beliefs, views, walkVars, ioVars>>
    ELSE LET here == NodeOf(node[t])
             left == [node EXCEPT ![t] = NULL]
         IN  /\ \/ /\ ok /\ here < Len(devices)
                   /\ \E u \in Free(left) :
                        /\ pending_device_task' = u
                        /\ node' = [left EXCEPT ![u] = devices[here + 1]]
                        /\ set_soft(devices[here + 1], u, dfr, onl)
                   /\ agreed' = agreed \cup {node[t]}
                   /\ UNCHANGED <<set_block_task, caller, walked>>
                \/ /\ ~ (ok /\ here < Len(devices))
                   /\ Answer(ok)
                   /\ node' = left
                   /\ deferred' = dfr
                   /\ online' = onl
             /\ UNCHANGED <<devices, beliefs, views, orphans, fault>>

-----------------------------------------------------------------------------
(* Calls and dispatches.                                                   *)

\* Mutant: a second request is not refused while one is in progress.
SetBlock_Unguarded ==
    /\ fault = "none"
    /\ set_software_blocked(TRUE)
    /\ UNCHANGED <<devices, beliefs, views, orphans, fault>>

\* Block or the flight mode walk: the daemon has one request at a time.
SetBlock ==
    /\ fault = "none"
    /\ caller \in {"idle", "ok", "error"}
    /\ set_software_blocked(TRUE)
    /\ UNCHANGED <<devices, beliefs, views, orphans, fault>>

\* A key press or the restore after a failed flight mode: nothing stops them
\* while a walk is in progress.
SetBlockNull ==
    /\ NullCalls
    /\ fault = "none"
    /\ set_software_blocked(FALSE)
    /\ UNCHANGED <<devices, beliefs, views, orphans, fault>>

\* The main loop dispatches the first deferred task.
Dispatch ==
    /\ fault = "none"
    /\ deferred # <<>>
    /\ LET e == Head(deferred) IN
       \/ /\ e.task = CALLER
          /\ caller' = "ok"
          /\ deferred' = Tail(deferred)
          /\ UNCHANGED <<devices, beliefs, views, fault, online, orphans,
                         set_block_task, pending_device_task, node, walked, agreed>>
       \/ /\ e.task # CALLER
          /\ soft_block_cb(e.task, e.ok, Tail(deferred), online)

\* The reply to SetProperty(Online), or its timeout (set_online_cb).
OnlineReply(o) ==
    /\ fault = "none"
    /\ online[o] # IDLE
    /\ LET idle == [online EXCEPT ![o] = IDLE] IN
       \/ /\ online[o] = PLAIN
          /\ online' = idle
          /\ UNCHANGED <<devices, beliefs, views, walkVars, deferred, orphans, fault>>
       \/ /\ online[o] # PLAIN
          /\ \E ok \in BOOLEAN : soft_block_cb(online[o], ok, deferred, idle)

\* The same for a modem that has been removed: its object lives until then.
OrphanReply ==
    /\ fault = "none"
    /\ \E t \in orphans, ok \in BOOLEAN : soft_block_cb(t, ok, deferred, online)

\* A call for one modem that does not go through the killswitch: BlockIdx or
\* force_sync.
SetModem(o) ==
    /\ fault = "none"
    /\ o \in Range(devices)
    /\ online[o] = IDLE
    /\ online' = [online EXCEPT ![o] = PLAIN]
    /\ UNCHANGED <<devices, beliefs, views, walkVars, deferred, orphans, fault>>

-----------------------------------------------------------------------------
(* Reports of the kernel and of oFono.                                     *)

\* RFKILL_OP_CHANGE: update_states emits state-changed, which refreshes.
KernelChange(k) ==
    /\ fault = "none"
    /\ k \in Range(devices)
    /\ \E s, h \in BOOLEAN :
         /\ <<s, h>> # <<soft[k], hard[k]>>
         /\ soft' = [soft EXCEPT ![k] = s]
         /\ hard' = [hard EXCEPT ![k] = h]
    /\ UNCHANGED devices
    /\ state_refresh
    /\ UNCHANGED <<walkVars, ioVars, fault>>

\* PropertyChanged(Online): the modem may or may not be in the list.  One that
\* has left it still refreshes, which then finds nothing changed.
ModemChange(o) ==
    /\ fault = "none"
    /\ soft' = [soft EXCEPT ![o] = ~ @]
    /\ UNCHANGED <<hard, devices>>
    /\ IF o \in Range(devices) THEN state_refresh ELSE UNCHANGED views
    /\ UNCHANGED <<walkVars, ioVars, fault>>

\* RFKILL_OP_ADD or a modem that is powered: the device goes to the head of the
\* list, behind which a walk may already be; the saved state is then applied to
\* it directly.
AddDevice(d) ==
    /\ fault = "none"
    /\ d \notin Range(devices)
    /\ devices' = <<d>> \o devices
    /\ \E s, h \in BOOLEAN :
         IF d \in Kernel
         THEN /\ soft' = [soft EXCEPT ![d] = s]
              /\ hard' = [hard EXCEPT ![d] = h]
         ELSE /\ UNCHANGED beliefs
    /\ state_refresh
    /\ online' = IF Persist /\ d \in Ofono /\ online[d] = IDLE
                 THEN [online EXCEPT ![d] = PLAIN] ELSE online
    /\ UNCHANGED <<walkVars, deferred, orphans, fault>>

\* RFKILL_OP_DEL or a modem that is no longer powered: the list node is freed,
\* the tasks that point to it stay outstanding.
del_device(d) ==
    /\ devices' = RemoveAt(devices, NodeOf(d))
    /\ node' = [t \in TaskIds |-> IF node[t] = d THEN FREED ELSE node[t]]
    /\ walked' = walked \ {d}
    /\ agreed' = agreed \ {d}

RemoveDevice(d) ==
    /\ fault = "none"
    /\ Removals \/ \A t \in TaskIds : node[t] = NULL
    /\ d \in Range(devices)
    /\ del_device(d)
    /\ IF d \in Kernel
       THEN /\ soft' = [soft EXCEPT ![d] = FALSE]   \* the object dies with it
            /\ hard' = [hard EXCEPT ![d] = FALSE]
       ELSE UNCHANGED beliefs
    /\ state_refresh
    /\ UNCHANGED <<set_block_task, pending_device_task, caller, ioVars, fault>>

\* ModemRemoved: the object goes away, a later ModemAdded makes a new one.
RemoveModem(o) ==
    /\ fault = "none"
    /\ Removals \/ \A t \in TaskIds : node[t] = NULL
    /\ IF o \in Range(devices) THEN del_device(o)
       ELSE UNCHANGED <<devices, node, walked, agreed>>
    /\ soft' = [soft EXCEPT ![o] = FALSE]
    /\ UNCHANGED hard
    /\ state_refresh
    /\ online' = [online EXCEPT ![o] = IDLE]
    /\ orphans' = orphans \cup ({online[o]} \ {IDLE, PLAIN})
    /\ UNCHANGED <<set_block_task, pending_device_task, caller, deferred, fault>>

\* The service manager starts the daemon again; the caller sees its call fail.
Restart ==
    /\ fault # "none"
    /\ devices' = <<>>
    /\ soft' = [d \in Devices |-> FALSE]
    /\ hard' = [d \in Devices |-> FALSE]
    /\ state' = NO_ADAPTER
    /\ announced' = NO_ADAPTER
    /\ set_block_task' = FALSE
    /\ pending_device_task' = NULL
    /\ node' = [t \in TaskIds |-> NULL]
    /\ deferred' = <<>>
    /\ online' = [o \in Ofono |-> IDLE]
    /\ orphans' = {}
    /\ caller' = "idle"
    /\ walked' = {}
    /\ agreed' = {}
    /\ fault' = "none"

Next ==
    \/ SetBlock
    \/ SetBlockNull
    \/ Dispatch
    \/ \E o \in Ofono : OnlineReply(o) \/ SetModem(o) \/ ModemChange(o) \/ RemoveModem(o)
    \/ OrphanReply
    \/ \E k \in Kernel : KernelChange(k)
    \/ \E d \in Devices : AddDevice(d) \/ RemoveDevice(d)
    \/ Restart

\* The main loop goes on dispatching, every D-Bus call is answered or times
\* out, and the service manager restarts a daemon that has aborted.
Fairness ==
    /\ WF_vars(Dispatch)
    /\ \A o \in Ofono : WF_vars(OnlineReply(o))
    /\ WF_vars(OrphanReply)
    /\ WF_vars(Restart)

Spec == Init /\ [][Next]_vars
FairSpec == Spec /\ Fairness

-----------------------------------------------------------------------------
(* Properties.                                                             *)

\* The cached state is the one the devices have: a key press, a Block or a
\* flight mode that reads it never acts on an old value, because every handler
\* that changes the list or a device ends in urf_killswitch_state_refresh.
StateCurrent == state = StateOf(devices, soft, hard)

\* While there is an adapter, a client that follows PropertiesChanged has the
\* current state: no change is lost between two emissions.
AnnouncedCurrent == devices # <<>> => announced = state

\* A caller that waits on this killswitch waits on exactly one thing: its walk,
\* or the deferred answer of an empty killswitch.
CallerOwned ==
    /\ set_block_task => caller = "waiting"
    /\ caller = "waiting" =>
         \/ set_block_task
         \/ \E i \in DOMAIN deferred : deferred[i].task = CALLER

\* A walk with a caller is never stuck: the answer that will make it go on is in
\* the main loop's queue or a D-Bus reply is to come.
WalkDriven ==
    set_block_task =>
      /\ pending_device_task \in TaskIds
      /\ \/ \E i \in DOMAIN deferred : deferred[i].task = pending_device_task
         \/ \E o \in Ofono : online[o] = pending_device_task
         \/ pending_device_task \in orphans

\* The walk tells its caller OK only when every device that has been in the list
\* from the start to the end of it has answered with success, whatever was
\* plugged, unplugged or pressed meanwhile.
OkMeansAllAgreed ==
    [][set_block_task /\ caller' = "ok" => walked \subseteq agreed']_vars

\* The assertion G_TASK(res) == pending_device_task of soft_block_cb holds.
NoTaskMismatch == fault # "task_mismatch"

\* With one call at a time and no removal during a walk, both assertions hold.
NoAbort == fault = "none"

\* With one call at a time every call is answered.
EveryCallAnswered == caller = "waiting" ~> caller \in {"ok", "error"}
=============================================================================
