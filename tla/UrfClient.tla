------------------------------ MODULE UrfClient ------------------------------
(***************************************************************************)
(* The client library (liburfkill-glib): its list of devices, filled by    *)
(* EnumerateDevices and kept by signals, the states of its device objects  *)
(* and of one UrfKillswitch, and the daemon as far as its signals go       *)
(* (urf-daemon.c, urf-device-kernel.c, urf-killswitch.c).                  *)
(*                                                                         *)
(* The bus delivers what the daemon sends in order.  Signals wait for the  *)
(* client's main loop; the reply of a synchronous call does not, so that   *)
(* what it reads may be newer than the signals that wait.  A proxy gets no *)
(* signal that came in before it was made.                                 *)
(***************************************************************************)
EXTENDS UrfTypes, SequencesExt

CONSTANTS
    Devices,         \* the kernel's devices, of one type
    MaxInputs        \* bound: devices that come, change or go, restarts of the
                     \* daemon and calls of enumerate_devices_sync

ASSUME ClientAssumption ==
    /\ IsFiniteSet(Devices) /\ Devices \subseteq Nat
    /\ MaxInputs \in Nat

VARIABLES
    devices,        \* the daemon's list of devices
    state,          \* what each device has been through: it is blocked if odd
    switch,         \* the state of the daemon's killswitch
    queue,          \* the messages that wait for the client's main loop
    asked,          \* the GetAll calls of proxies whose daemon is a new one
    list,           \* priv->devices of the UrfClient
    todo,           \* the paths of EnumerateDevices still to be added
    is_enumerated,  \* priv->is_enumerated
    killswitch,     \* the UrfKillswitch: its state, if there is one
    inputs, restarts, enumerations     \* history: how many there have been

daemonVars == <<devices, state, switch>>
clientVars == <<list, todo, is_enumerated, killswitch>>
history    == <<inputs, restarts, enumerations>>
vars == <<daemonVars, queue, asked, clientVars, history>>

SWITCH == -1    \* stands for the path of the killswitch
Unknown == -2       \* the state of an object that could not be read

Paths == Devices \cup {SWITCH}
Signals == {"PropertiesChanged", "DeviceAdded", "DeviceRemoved", "DeviceChanged",
            "NameOwnerChanged"}

\* A message, with the state it tells of.
Message(signal, path, value) == [signal |-> signal, path |-> path, value |-> value]

\* The property changes of an object that wait.
Waiting(path) ==
    Cardinality({i \in DOMAIN queue : queue[i].signal = "PropertiesChanged"
                                      /\ queue[i].path = path})

\* A proxy misses those that came in before it was made: skip counts them.
TypeOK ==
    /\ devices \in Seq(Devices)
    /\ state \in [Devices -> Nat]
    /\ switch \in KillswitchState
    /\ queue \in Seq([signal : Signals, path : Paths, value : Int])
    /\ asked \subseteq Paths
    /\ list \in Seq([path : Devices, state : Nat \cup {Unknown}, skip : Nat])
    /\ \A i \in DOMAIN list : list[i].skip <= Waiting(list[i].path)
    /\ todo \in Seq(Devices)
    /\ is_enumerated \in BOOLEAN
    /\ killswitch \in [state : KillswitchState \cup {Unknown}, skip : Nat]
    /\ killswitch.skip <= Waiting(SWITCH)

-----------------------------------------------------------------------------
(* The daemon.                                                             *)

StateOf(devs, st) ==
    KillswitchStateOf({}, {event_to_state(st[d] % 2 = 1, FALSE) : d \in Range(devs)})

\* urf_killswitch_state_refresh: the loss of the last device is not announced.
Refreshed(devs, st, old) ==
    IF devs = <<>> \/ StateOf(devs, st) = old THEN <<>>
    ELSE <<Message("PropertiesChanged", SWITCH, StateOf(devs, st))>>

\* urf_arbitrator_add_device and urf_daemon_device_added_cb.
device_added_cb(d, devs, st, old) ==
    Refreshed(Append(devs, d), st, old) \o <<Message("DeviceAdded", d, st[d])>>

Plug(d) ==
    /\ ~ Contains(devices, d)
    /\ state[d] = 0                  \* the kernel uses an index once
    /\ \E v \in {1, 2} :
         /\ state' = [state EXCEPT ![d] = v]
         /\ queue' = queue \o device_added_cb(d, devices, state', switch)
    /\ devices' = Append(devices, d)
    /\ switch' = StateOf(devices', state')

\* Mutant: the client is told of the change before the property.
device_changed_cb_Early(d) ==
    /\ Contains(devices, d)
    /\ state' = [state EXCEPT ![d] = @ + 1]
    /\ queue' = queue \o Refreshed(devices, state', switch)
                      \o <<Message("DeviceChanged", d, state'[d]),
                           Message("PropertiesChanged", d, state'[d])>>
    /\ switch' = StateOf(devices, state')
    /\ UNCHANGED devices

\* urf_device_kernel_update_states, then urf_daemon_device_changed_cb.
device_changed_cb(d) ==
    /\ Contains(devices, d)
    /\ state' = [state EXCEPT ![d] = @ + 1]
    /\ queue' = queue \o Refreshed(devices, state', switch)
                      \o <<Message("PropertiesChanged", d, state'[d]),
                           Message("DeviceChanged", d, state'[d])>>
    /\ switch' = StateOf(devices, state')
    /\ UNCHANGED devices

\* remove_killswitch, then urf_daemon_device_removed_cb.
device_removed_cb(d) ==
    /\ Contains(devices, d)
    /\ devices' = RemoveFirst(devices, d)
    /\ queue' = queue \o Refreshed(devices', state, switch)
                      \o <<Message("DeviceRemoved", d, state[d])>>
    /\ switch' = StateOf(devices', state)
    /\ UNCHANGED state

Input ==
    /\ inputs < MaxInputs
    /\ inputs' = inputs + 1

Change ==
    /\ Input
    /\ \E d \in Devices : Plug(d) \/ device_changed_cb(d) \/ device_removed_cb(d)
    /\ UNCHANGED <<asked, clientVars, restarts, enumerations>>

\* urf_daemon_startup: the devices that are still there are added, one after the
\* other, before the bus is served.  A call made meanwhile waits for the new daemon.
startup(left) ==
    LET before(i) == SubSeq(left, 1, i - 1) IN
    /\ devices' = left
    /\ switch' = StateOf(left, state')
    /\ queue' = queue \o <<Message("NameOwnerChanged", SWITCH, 0)>>
                      \o FlattenSeq([i \in DOMAIN left |->
                             device_added_cb(left[i], before(i), state',
                                             StateOf(before(i), state'))])

\* The daemon is replaced by a new one, while one device may go or change.
Restart ==
    /\ Input
    /\ restarts' = restarts + 1
    /\ \/ UNCHANGED state /\ startup(devices)
       \/ \E d \in Range(devices) :
            \/ state' = [state EXCEPT ![d] = @ + 1] /\ startup(devices)
            \/ UNCHANGED state /\ startup(RemoveFirst(devices, d))
    /\ asked' = {}
    /\ UNCHANGED <<clientVars, enumerations>>

\* The daemon answers the GetAll of a proxy; a device that is gone has none.
GetAll ==
    /\ \E p \in asked :
         /\ asked' = asked \ {p}
         /\ queue' = IF p = SWITCH
                     THEN Append(queue, Message("PropertiesChanged", SWITCH, switch))
                     ELSE IF Contains(devices, p)
                     THEN Append(queue, Message("PropertiesChanged", p, state[p]))
                     ELSE queue
    /\ UNCHANGED <<daemonVars, clientVars, history>>

-----------------------------------------------------------------------------
(* The client.                                                             *)

Known(path) == \E i \in DOMAIN list : list[i].path = path

\* urf_device_set_object_path_sync: the properties are read now.  Of an object that
\* is gone nothing is read, and its signals are not connected.
set_object_path_sync(path, skip) ==
    [path |-> path, skip |-> skip,
     state |-> IF Contains(devices, path) THEN state[path] ELSE Unknown]

\* Mutant: the signals of a device are connected too late for one of them.
add_Late(path) ==
    \E skip \in 0..(Waiting(path) + 1) :
        list' = Append(list, set_object_path_sync(path, skip))

\* urf_client_add: nobody looks whether the path is in the list.
add(path) ==
    \E skip \in 0..Waiting(path) :
        list' = Append(list, set_object_path_sync(path, skip))

\* urf_client_enumerate_devices_sync: the reply, ...
enumerate_devices_sync ==
    /\ todo = <<>>
    /\ Input
    /\ enumerations' = enumerations + 1
    /\ todo' = devices
    /\ is_enumerated' = (is_enumerated \/ devices = <<>>)
    /\ UNCHANGED <<daemonVars, queue, asked, list, killswitch, restarts>>

\* ... and one synchronous call for each path, while the main loop does not run.
get_devices_private ==
    /\ todo # <<>>
    /\ add(Head(todo))
    /\ todo' = Tail(todo)
    /\ is_enumerated' = (is_enumerated \/ Tail(todo) = <<>>)
    /\ UNCHANGED <<daemonVars, queue, asked, killswitch, history>>

\* urf_killswitch_new.
urf_killswitch_new ==
    /\ todo = <<>>
    /\ killswitch.state = Unknown
    /\ \E skip \in 0..Waiting(SWITCH) : killswitch' = [state |-> switch, skip |-> skip]
    /\ UNCHANGED <<daemonVars, queue, asked, list, todo, is_enumerated, history>>

\* Mutant: nothing is read again once the object is initialized.
changed_cb_Initialized(path, value) ==
    /\ list' = [i \in DOMAIN list |->
                  IF list[i].path = path /\ list[i].skip > 0
                  THEN [list[i] EXCEPT !.skip = @ - 1] ELSE list[i]]
    /\ killswitch' = IF path # SWITCH THEN killswitch
                     ELSE IF killswitch.skip > 0 THEN [killswitch EXCEPT !.skip = @ - 1]
                     ELSE IF killswitch.state = Unknown THEN killswitch
                     ELSE [killswitch EXCEPT !.state = value]

\* urf_device_changed_cb and urf_killswitch_changed_cb, of the proxies that get the
\* change.
changed_cb(path, value) ==
    /\ list' = [i \in DOMAIN list |->
                  IF list[i].path # path THEN list[i]
                  ELSE IF list[i].skip > 0 THEN [list[i] EXCEPT !.skip = @ - 1]
                  ELSE IF list[i].state = Unknown THEN list[i]
                  ELSE [list[i] EXCEPT !.state = value]]
    /\ killswitch' = IF path # SWITCH THEN killswitch
                     ELSE IF killswitch.skip > 0 THEN [killswitch EXCEPT !.skip = @ - 1]
                     ELSE IF killswitch.state = Unknown THEN killswitch
                     ELSE [killswitch EXCEPT !.state = value]

\* Mutant: a device that is announced is added, known or not.
device_added_Unchecked(path) == add(path)

device_added(path) ==
    \/ Known(path) /\ UNCHANGED list
    \/ ~ Known(path) /\ add(path)

device_removed(path) ==
    list' = RemoveFirstMatch(list, LAMBDA r : r.path = path)

\* The daemon's name has a new owner: every proxy drops its properties and asks for
\* them again.  A device object keeps its state, a killswitch takes none for 0.
name_owner_changed ==
    /\ asked' = {p \in Paths : \/ p = SWITCH /\ killswitch.state # Unknown
                               \/ \E i \in DOMAIN list : list[i].path = p
                                                         /\ list[i].state # Unknown}
    /\ killswitch' = IF killswitch.state = Unknown THEN killswitch
                     ELSE [killswitch EXCEPT !.state = UNBLOCKED]
    /\ UNCHANGED list

\* urf_client_proxy_signal_cb: before the enumeration nothing is done.
proxy_signal_cb(m) ==
    \/ /\ ~ is_enumerated \/ m.signal = "DeviceChanged"
       /\ m.signal \in {"DeviceAdded", "DeviceRemoved", "DeviceChanged"}
       /\ UNCHANGED list
    \/ is_enumerated /\ m.signal = "DeviceAdded" /\ device_added(m.path)
    \/ is_enumerated /\ m.signal = "DeviceRemoved" /\ device_removed(m.path)

\* The main loop dispatches the next message.
Dispatch ==
    /\ todo = <<>>
    /\ queue # <<>>
    /\ queue' = Tail(queue)
    /\ LET m == Head(queue) IN
         \/ /\ m.signal = "PropertiesChanged"
            /\ changed_cb(m.path, m.value)
            /\ UNCHANGED asked
         \/ /\ m.signal = "NameOwnerChanged"
            /\ name_owner_changed
         \/ /\ proxy_signal_cb(m)
            /\ UNCHANGED <<asked, killswitch>>
    /\ UNCHANGED <<daemonVars, todo, is_enumerated, history>>

-----------------------------------------------------------------------------

\* Some devices are there; the client has made its UrfClient and nothing else.
Init ==
    /\ \E present \in SUBSET Devices :
         /\ devices = SetToSeq(present)
         /\ state = [d \in Devices |-> IF d \in present THEN 2 ELSE 0]
    /\ switch = StateOf(devices, state)
    /\ queue = <<>>
    /\ asked = {}
    /\ list = <<>>
    /\ todo = <<>>
    /\ is_enumerated = FALSE
    /\ killswitch = [state |-> Unknown, skip |-> 0]
    /\ inputs = 0
    /\ restarts = 0
    /\ enumerations = 0

Next ==
    \/ Change
    \/ Restart
    \/ GetAll
    \/ enumerate_devices_sync
    \/ get_devices_private
    \/ urf_killswitch_new
    \/ Dispatch

Spec == Init /\ [][Next]_vars

-----------------------------------------------------------------------------
(* Properties.                                                             *)

Drained == queue = <<>> /\ asked = {} /\ todo = <<>> /\ is_enumerated

\* Whatever signals raced with the enumeration and with the calls that fill the
\* list, once they are handled the client has every device of the daemon, through
\* restarts; and when it has enumerated once and the daemon is the one it began
\* with, it has each of them once and nothing else.
ListComplete ==
    Drained =>
        /\ \A d \in Range(devices) : Known(d)
        /\ restarts = 0 /\ enumerations = 1 =>
             /\ {list[i].path : i \in DOMAIN list} = Range(devices)
             /\ Len(list) = Len(devices)

\* The states of the client's objects are the daemon's once everything is handled,
\* also after a restart during which states changed: no copy is left behind by a
\* signal that came before its object, or by a call that overtook a signal.
StatesCurrent ==
    queue = <<>> /\ asked = {} =>
        /\ \A i \in DOMAIN list : Contains(devices, list[i].path)
                                   => list[i].state = state[list[i].path]
        /\ killswitch.state # Unknown /\ devices # <<>> => killswitch.state = switch

\* When the program is told that a device changed, its object shows that change or
\* a later one: the property signal overtakes no DeviceChanged.
ChangedShows ==
    queue # <<>> /\ Head(queue).signal = "DeviceChanged" /\ restarts = 0 =>
        \A i \in DOMAIN list :
            list[i].path = Head(queue).path /\ list[i].state # Unknown
            => list[i].state >= Head(queue).value
=============================================================================
