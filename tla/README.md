# urfkill: a TLA+ model of the killswitch daemon

urfkilld (`src/`) owns the radio killswitches of a machine. It follows the
kernel's `/dev/rfkill`, the modems of oFono and the rfkill keys, offers Block,
BlockIdx, FlightMode and Inhibit on D-Bus, and saves what it was asked for. It
is one process with one thread, a GLib main loop; what makes it hard is that
almost every operation is asynchronous: a request ends in another dispatch of
the main loop than the one that started it, and anything may be dispatched in
between.

The modules here model that program, TLC checks them on small instances and
TLAPS proves the central properties of every module for any instance.

## The system

| Component | State | Operations | Talks to |
|---|---|---|---|
| killswitch (`urf-killswitch.c`), one per rfkill type | device list, aggregated state, the caller's task, the task of the device it waits for | `set_software_blocked` and its callback, `add_device`, `del_device`, `state_refresh` | devices (GTask), arbitrator, clients (PropertiesChanged) |
| arbitrator (`urf-arbitrator.c`) | killswitches by type, devices by index, the flight mode walk (`fm_task_data`, `block_index`, `pending_block`) | `set_block`, `set_block_idx`, `set_flight_mode` and its callback, add, change and remove a device | killswitches, devices, config, `/dev/rfkill` |
| daemon (`urf-daemon.c`) | `flight_mode`, the one request in progress (`invocation`, `pending_block`) | Block, BlockIdx, FlightMode, Inhibit, Uninhibit, EnumerateDevices, the key handler | arbitrator, polkit, session checker, config, clients |
| config (`urf-config.c`) | options, profile, the file of saved states | read and write `soft` and `prev-soft` of each type and of ALL | the file system |
| kernel device (`urf-device-kernel.c`) | soft, hard | `set_soft`, `update_states` | `/dev/rfkill` |
| oFono device and manager (`urf-device-ofono.c`, `urf-ofono-manager.c`) | Online, Powered, the pending SetProperty and its task; the modems by path, the next index | `set_soft`, its reply, PropertyChanged; modems added, removed, oFono coming and going | oFono (D-Bus), arbitrator |
| session checker (`urf-session-checker-logind.c`, `urf-seat-logind.c`, and the same for ConsoleKit) | inhibitors, seats and their active sessions, the cached `inhibit` | Inhibit, Uninhibit, NameOwnerChanged, SeatNew, SeatRemoved, ActiveSession | logind or ConsoleKit, the bus, daemon |
| input (`urf-input.c`), polkit (`urf-polkit.c`), main, utilities | channels; none | key events; a synchronous check; start | daemon |
| client library (`liburfkill-glib/`) | a copy of the device list, of each device's state and of a killswitch's | enumeration, DeviceAdded, DeviceRemoved, DeviceChanged, property changes, a new owner of the daemon's name | daemon (D-Bus) |

The hard parts, all listed with their lines under `hazards` in `PROJECT.json`:

* a killswitch has room for one walk, and keys and the undo of a failed flight
  mode start one without looking;
* a walk keeps a pointer into the device list while it waits, and devices come
  and go;
* flight mode is a walk over the types, each with a walk over its devices, that
  has to be undone from the middle, and its outcome is spread over memory, the
  saved file and a signal;
* three methods share `invocation` and `pending_block`;
* states are cached at three levels (device, killswitch, clients) and kept
  current by hand;
* inhibitors belong to clients that vanish, sessions that switch and seats that
  come and go;
* what the daemon writes to `/dev/rfkill` comes back as events, after others that
  were already queued, and with `force_sync` is answered by more writes;
* lists are filled by a call and kept by signals, at oFono's side and at the
  client's: the answer and the signals overtake each other, and the other side
  may be replaced in between;
* objects are counted references: a modem that is gone may still own a D-Bus path,
  hear signals, and complete a task.

What makes each component correct: the killswitch publishes the state its
devices have and answers each caller once, with OK only if all devices agreed;
the arbitrator switches all types or puts back the ones it had switched; the
daemon ends each request it accepts, for the client that made it, and flight
mode is what is saved and announced; the config gives back what was saved; the
session checker never lets a key through against an inhibitor of an active
session, and never goes on inhibiting for a client that is gone; the arbitrator's
devices are the kernel's and the manager's modems oFono's once all is read; the
options are those of the matching profiles under those of `urfkill.conf`; the
client's copies are the daemon's once its queue is empty.

## The modules

`UrfTypes` is what everything else is built on: the four states, the state of a
device (`event_to_state`), their aggregation (`aggregate_states`, and
`MostBlocked` for the two loops of `urf_killswitch_state_refresh`).

`UrfKillswitch` models one killswitch with its devices. An action is one
dispatch of the main loop:

| Action | Code |
|---|---|
| `SetBlock`, `SetBlockNull` | `urf_killswitch_set_software_blocked` for a D-Bus caller, and without a task (keys, undo) |
| `Dispatch` | a GTask that was returned in the iteration that made it completes in a later one, in order: `soft_block_cb` for a device's task, the caller's callback for a killswitch without devices |
| `OnlineReply`, `OrphanReply` | `set_online_cb`, for a modem that is still there or that was removed meanwhile |
| `SetModem` | BlockIdx and force_sync ask a modem directly |
| `KernelChange`, `ModemChange` | `update_states`, `PropertyChanged(Online)`, then `state_refresh` |
| `AddDevice`, `RemoveDevice`, `RemoveModem` | `urf_killswitch_add_device`, `_del_device`, the life of the object |
| `Restart` | the service manager after an abort |

`node` is the `user_data` of the outstanding tasks, a node of the GList:
`del_device` makes it `FREED`. The two `g_assert` of `soft_block_cb` are the
values of `fault`, after which only `Restart` is possible. What the kernel and
oFono report is arbitrary.

`UrfDaemon` composes the requests of the daemon, the flight mode walk of the
arbitrator and the saved file. A killswitch is there reduced to what
`UrfKillswitch` shows it to be: a call in progress that is answered with success
or not, an overwritten call whose late answer fails an assertion, a removed
device that does the same. One adapter per type stands for its devices.
`handle_flight_mode` is the loop of `handle_flight_mode_killswitch` up to the
next type that has an adapter, which happens in one dispatch; `FlightModeDone`
and `FlightModeFailed` are the two ends, with everything the daemon's callback
does after the arbitrator's. A write of the saved file is whole
(`g_file_set_contents`). The daemon may be killed between two dispatches
(`Restart`), and inside the one that ends a flight mode (`Torn`, with
`TornSaves`): among the saves of the types; when that of ALL was made too, before
or after FlightModeChanged, but before the reply; among the saves with which a
failed flight mode is undone. What a dispatch has sent is assumed to be delivered
when the dispatch is over. In the other dispatches that save, the save is the only
effect but the reply (`BlockDone`, `ChangeDevice`); a kill between the two is not
modelled.

`UrfFlightMode` is the abstract specification of flight mode for a client: one
request at a time; flight mode changes, and is announced, when a request succeeds
(`Succeed`), and stays as it is when one fails (`Fail`); a daemon that goes away
takes its request with it, which may have come true and may have been announced
(`Lost`); each request ends. `UrfDaemon` implements it with `requested` the value of
the FlightMode call in progress and `serving` whether there are adapters
(`FlightModeSafe`, and with fairness `FlightModeImplemented`).

`UrfSessionChecker` models the inhibitors, the seats and the cached answer that
the key handler reads, for both session managers: they differ in the handler of a
seat's signal (`proxy_signal_cb` and `proxy_properties_changed`), which
`session_manager` selects. A client that leaves stays in `departed` until the
daemon handles NameOwnerChanged; its calls that arrive in between find no session,
or the inhibitor it had. `session` is what a seat shows, `active` what its object
in the daemon knows, `signals` what is between them; a seat that is new gets its
state by a call that may overtake the signal of it (`object_path_sync`). One
assumption about the session manager is in `seat_added`: sessions belong to their
seat from their creation, and the daemon reads SeatNew before any call made from a
session of that seat, so that the active session a new seat has is not one that
inhibits already.

`UrfArbitrator` models the other half of the arbitrator: a kernel with its devices
and the queue of `/dev/rfkill`, the device objects, and the calls of clients as far
as they write and save. `event_cb` reads one event and does all that
`add_killswitch`, `update_killswitch` or `remove_killswitch` do. A write is
`RFKILL_OP_CHANGE_ALL` for the whole type, also where one device is meant
(`set_soft`). A call that is carried out is a `request` with the devices that are
`left`. Writes to `/dev/rfkill` are assumed not to fail here (in `UrfKillswitch`
they do); WWAN with strict flight mode, whose saved state is that of flight mode,
is left to `UrfDaemon`.

`UrfOfono` models the manager and the objects of modems. oFono and the bus are one
ordered `queue` of signals and replies, and the `calls` that are open; `Dispatch`
handles one message. An object is in `DOMAIN object` while something holds it: the
manager's `list`, the arbitrator's `devices`, an open call (`asking`, `pending`) or
a reference that BlockIdx lost (`leaked`); `dispose` frees the rest with their
paths, which are their indices. Assumed: the bus sends NameOwnerChanged before the
errors of the calls that were open; oFono ends the calls of a modem with errors
before ModemRemoved; calls are answered in any order.

`UrfClient` models the library against a daemon reduced to its signals. `queue`
holds what the client's main loop has not dispatched; a synchronous call reads the
daemon's present state past it, which is the point. `skip` counts the property
changes that came in before a proxy was made and do not reach it. A device's state
is the number of changes it has been through, so that an old value is seen to be
one. A restart adds all devices before the new daemon serves a call, as
`urf_daemon_startup` does; one device may have gone or changed meanwhile.

`UrfProfile` models where the options come from: the handlers that expat calls
(`StartElement`, `Text`, `EndElement`), the rule of a match with its operators,
the profiles one after the other, `hardware.conf` and `urfkill.conf`, over several
starts. The operators are those `get_operator` knows, one it does not know, and none at
all: a match without one, tried against something the machine tells, ends the process
(`BodyMissing`). Names are sequences of letters, a letter a number and its capital the
negative one, as much as the operators tell apart. A profile that is cut off or
malformed ends anywhere (`parse_done`).

The `MC*` modules hold what the configurations need (symmetry sets, the session
of each client, the types of devices, the elements of a profile); the `*Proofs`
modules the theorems.

History variables, which the code does not have: `walked`, `agreed`, `caller` in
`UrfKillswitch`; `accepted`, `announced`, `found`, `before`, `client` in `UrfDaemon`.
`found` is what blocks, soft and hard, the walk of flight mode has met at each type,
read from the adapters and not from the state the arbitrator notes; `before` is what
the walk that began flight mode had met.
`connected`, `departed` and `cookie` in `UrfSessionChecker` are the clients.
`single` in `UrfArbitrator` says that someone has set one device on its own,
`failed` in `UrfOfono` that a question to oFono got an error; `stack`, `fresh`,
`wanted` and `given` in `UrfProfile` are what the files mean, against which the
parser is compared; counters of inputs are bounds.

## The runs

| Run | Instance | Shows |
|---|---|---|
| `KillswitchWalk` | 2 kernel devices (one of a platform driver), 1 modem, 2 tasks, keys, removals | types; `StateCurrent`, `AnnouncedCurrent`: the published state is exact; `CallerOwned`, `WalkDriven`: a caller waits for one thing that is to come; `OkMeansAllAgreed` |
| `KillswitchSerial` | the same, one call at a time, no removal during a walk | neither assertion fails; each call is answered (liveness) |
| `KillswitchOverlap` | 1 kernel device, 1 modem | violation: the assertion on the task in `soft_block_cb` fails by a key during a walk |
| `DaemonFlight` | 2 types (one a modem in strict flight mode, one with a hard switch), 2 clients, a key, removals, kills | `FlightModeSaved`, `RequestOwned`, `PrevSoftOnlyInFlight`, `OkSaves`, `FailureUndoes`, `FlightOffRestores`, and the safety part of the refinement |
| `DaemonLive` | 2 types, 1 client, a key, kills also inside the dispatch that ends a flight mode | requests end; the refinement with its liveness; `FlightModeKept`: the daemon resumes the flight mode that is saved |
| `Sessions` | both session managers, 2 clients in 2 sessions, 2 seats, 3 cookies, 1 unread signal per seat | inhibitors are unique, never orphaned, respected, and keys come back; with ConsoleKit the session that inhibits is the one the seat really shows (`SessionFollowed`) |
| `SessionsLogind` | the same, logind | violation: a switch of sessions is not followed |
| `KernelSync` | 3 devices of one type, one of a platform driver, any options and saved state, 2 inputs | types; `InSync`: the objects are the kernel's devices once the events are read; `TypeInSync`: the devices of a type agree, with `force_sync` alone the two that are not of a platform driver; `Settles`: what is written back comes to an end (liveness) |
| `Client` | 2 devices, 4 inputs (changes, restarts, enumerations) | `ListComplete`, `StatesCurrent`, `ChangedShows` |
| `Ofono` | 1 modem, 4 objects at once, 7 inputs | `ModemsKnown`, `ModemsCurrent` |
| `OfonoRestart` | the same, 5 inputs | violation: the path of a modem is taken |
| `Profile` | 2 options, 7 elements, 3 machines, 2 profiles of 6 handler calls, 2 starts | types; `OnlyMatchingApplies`, `ConfOverProfile` |

Bounds. Two tasks per killswitch: a third one would wait for the two that are
outstanding, and two suffice for one call to overtake another. Three devices
give a walk a first, a middle and a last one, with a device before and behind it
when one is plugged in. Two types of which one is special (WWAN); the code treats
all types but WLAN, WWAN and ALL alike. Two clients are the least for one to be
refused while the other waits. Each inhibitor draws a cookie nobody has; three
cookies for two clients leave one to be used again. These modules have no other
bound, but for `MaxSignals`.

`UrfArbitrator`, `UrfOfono`, `UrfClient` and `UrfProfile` bound what comes from
outside (`MaxInputs`; `MaxEvents`, `MaxFiles`, `MaxStarts`), because their queues
have no bound. Two inputs are enough for a call that another program's write overtakes
while a device appears, since the devices that are there from the start, with any
states, are announced one by one; two devices with three inputs were checked as well. Seven inputs at oFono take a modem
through its coming, powering, a client's call, going, oFono's restart and a second
coming; two modems with four inputs were checked as well and show nothing more.
Four inputs at the client are an enumeration, a change that races with it, a
restart and a change after it. Six calls of a handler close an option inside a
match or put an element behind one that does not match; two starts make one read
what the other has saved. `Objects` in `UrfOfono` are names for the
objects; one is made only while enough of them are free, and four are enough for
these inputs.

Fairness. The main loop dispatches what is ready, D-Bus calls are answered or
time out, a write to `/dev/rfkill` returns, the service manager starts a daemon
that aborted (`debian/urfkill.service.in`, `Restart=on-failure`; the upstart job
says `respawn`). These are weak fairness on the answers, and nothing more: no
fairness on calls, keys, plugging or unplugging. `DaemonLive` needs none for the
kill itself.

`KernelSync` assumes weak fairness, written out, of reading an event and of the two steps of a
call, nothing of the kernel.

Deadlock is checked in the runs of `UrfKillswitch`, `UrfDaemon` and
`UrfSessionChecker`. In the others the inputs are bounded, so that a state in
which all is handled has no successor; there `Settles` and the properties of the
states with empty queues say what should be there in the end.

## What is proved

`UrfKillswitchProofs`, for any kernel and oFono devices and any number of
tasks, from `KillswitchAssumption` alone:

* `StateIsCurrent`, `AnnouncementIsCurrent`. The invariant is the conjunction of
  both properties and `devices \in Seq(Devices)`. The first announcement after a
  silent change to NO_ADAPTER is safe because a list with devices never
  aggregates to NO_ADAPTER (`StateOfList`, from `MostBlockedIsState`), so that it
  always differs from the state before. A modem that has left the list may
  change without a refresh, because the state depends on the list's devices only
  (`StateOfOthers`).
* `TypeCorrect`, `CallerIsOwned`, `WalkIsDriven`. None of them is inductive. What
  is (`IInv`) also says where tasks are: a task that is queued or pending at a
  modem is outstanding and is in one place only (`Outstanding`); an outstanding
  task points to a node of the list or to a freed one (`NodesListed`), a removed
  modem's always to a freed one (`OrphansFreed`); the deferred answer of an empty
  killswitch belongs to the caller that waits (`EmptyAnswer`). Two lemmas carry
  most of it: `Start`, a fresh task given to a device, and `End`, one that comes
  back.
* `OkIsUnanimous`. On top of `IInv`: no device is twice in the list, the devices
  that have been there since the walk began still are, and those before the node
  the walk waits for have agreed (`BehindAgreed`). Insertion at the head and
  removal keep the order of the others (`AdditionOrder`, `RemovalOrder`).
* `NoAssertionFails`, with `~ NullCalls` and `~ Removals` as in the run: with one
  caller at a time and no device removed, the two assertions of `soft_block_cb`
  hold. The invariant (`Alone`) is that the only task that can be outstanding is
  the one the killswitch waits for, on behalf of its caller, and that the device
  it was given to has not been freed.

`UrfSessionCheckerProofs`, for any seats, sessions, clients and cookies:
`TypeCorrect`, `InhibitorUnique`, `NoneOrphaned` (which needs the uniqueness: the
departure removes one inhibitor), `KeysReturn`, `InhibitorsRespected` and
`SessionIsFollowed`. The invariant of the last one (`Followed`) says of each seat that
the last of its unread signals, or what its object knows when there is none, is
the session it shows.

`UrfDaemonProofs`, for any types, modems, options, keys and clients, from
`DaemonAssumption` alone:

* `TypeCorrect`, `FlightModeIsKept`. The invariant (`IInv`) adds where the
  request is and what it carries (`Placed`): a killswitch's call for a client
  belongs to the kind and the target of the request, the walk is at the type
  before `block_index`, and the daemon's and the arbitrator's pending values are
  equal while flight mode is in progress. That the walk stops at an existing type
  is `NextType`; the least element it rests on comes from well-foundedness
  (`Least`). The daemon resumes what the key of ALL says, wherever it is killed
  (`RestartedStep`); no save made for a type writes that key (`FinalTypes`).
* `FlightModeIsSaved`, that the last FlightModeChanged agrees as well, under the
  assumption `~ TornSaves`: killed between the save of ALL and the signal, the daemon
  resumes a flight mode nobody was told of. One step at a time is `ToldStep`.
* `FlightModeRefines`, without that assumption, the safety half of the refinement of
  `UrfFlightMode`: each step of the daemon is one of the abstract flight mode or a
  stutter (`FlightModeStepSafe`). An adapter's failure is `Fail`, adapters that come
  and go are `Serve`. A restart during a flight mode request is `Lost`
  (`RestartLoses`); where the request had come true it is `Lost` with the new flight
  mode (`TornLoses`). That a restart changes nothing else is `FlightModeIsKept` and
  `FinalTypes`.
* `RequestIsOwned`. That there are not two holders is `Placed` (`OneHolder`);
  that there is one needs the second invariant `Held`: a call that goes away
  unanswered, overwritten or removed with its device, leaves a late answer.
* `SuccessSaves`, the action property, from `Placed`: the value that is saved is
  still the one of the accepted call.
* `FailureIsUndone`, the action property, for any blocks a type was found with: only
  an answer of the walk ends a flight mode request with an error while the daemon runs
  on (`Placed`), and of each type the walk has passed, `initial_state` is the state of
  the blocks it was found with (`FoundStates`). So what was soft blocked is asked to be,
  and what had no block is not; what was hard blocked only is asked for a soft block,
  one of the disagreements below, which the theorem neither claims nor rules out.
* `NothingLeftRemembered` and `FlightModeRestores`, both under the assumption
  `~ TornSaves`, as in the run. The second needs `FoundStates` and `Recorded`: in
  flight mode what is remembered of a type is whether it was found with a soft block
  and no other when flight mode began, and while flight mode off is walking, of each
  type it has passed, `final_state` is what is remembered (`PassedOff`), and so is what
  the adapter was asked for (`AskedOff`). Two lemmas carry it: `HandleRecords`, the walk
  up to the next type with an adapter, and `DoneRecords`, its end. The types found soft
  and hard blocked are left out by `Lossless`, because the code forgets their soft
  block. Killed among the saves of a flight mode off, the daemon resumes flight mode with
  a part of what it remembered lost: that is why the assumption is needed.

`UrfArbitratorProofs`, for any devices, types and platform devices, from
`ArbitratorAssumption`: `ArbitratorTypeCorrect` and `ObjectsFollowKernel`. That urfkilld
agrees with the kernel once all is read says nothing while something is unread.
The invariant (`KInv`) says what the unread events are worth: of each device that
is there, the last unread event tells its present state, or its object does if
there is none (`Latest`, `Current`); a device that urfkilld does not know has an ADD
before any other event, one that it knows has none, and a DEL is the last
(`Heralded`, `AddedFirst`, `GoneLast`); who is there and unknown will be added, who
is gone and known will be removed (`Coming`, `Leaving`). It is stated of a kernel,
not of the variable, because a handler that writes back goes through several:
the first event is read (`ReadsADD`, `ReadsDEL`, `ReadsCHANGE`), then each write is one
more `CHANGE_ALL` (`AllChanges`). That an index is used once is needed: it is how
the kernel numbers its devices. `TypesAgree` adds one invariant to it (`AInv`): the
devices that urfkilld knows of one type, which an option keeps, agree. A write goes to
a whole type (`WriteAgrees`), a new device is written when it becomes known
(`AddedAgrees`), and once all is read the known devices are those that are there.

`UrfProfileProofs`, for any elements, machines, options and bounds that
`ProfileAssumption` allows: `ProfileTypeCorrect`, `ProfileAppliesWhatMatches` and
`ConfIsOverProfile`. That the options are those the file means is not inductive: the
parser knows two counters and an option, not the elements that are open. The
invariant (`Parser`) says what these stand for: the bound is the lowest level
whose element does not let its contents through, one beyond the depth if all do,
and an option is waiting for its text exactly when a text would count. A match without
an operator, where it ends the process, leaves all that as it was. For the
configuration (`SInv`), hardware.conf never holds anything but what the profiles gave
last. `ConfOverProfile` says nothing of `key_control` on a machine without DMI
information, where the code does not do what it is meant to.

`UrfClientProofs`, for any devices and any number of inputs: `ChangeIsShown`. An object
that is made while its signals wait knows more than they tell, then hears the older
ones and shows an older state for a while; so what an object shows cannot be compared
with the daemon before the last signal is in. The invariant (`Calm`) is about the
messages instead: none tells of what is yet to come and a DeviceChanged stands right
behind the property change it goes with (`Sound`), and the changes that an object
misses are among those it knew when it was made (`Shows`), which are counted, so that
reading a message moves every count (`Shifted`). It speaks of the daemon that the
client began with, as `ChangedShows` does.

`UrfClientListProofs`, for the same instances, restarts of the daemon included:
`ClientTypes`, `StatesAgree` and `ListAgrees`. The properties speak of a client that has
handled everything; the invariant (`SyncInv`) of the messages it has not. A change that
waits tells of the present state, or another word on its path comes behind it
(`LastCurrent`). So an object whose `skip` leaves it a message will have the daemon's
state, and one that is left none has it already (`AllFollow`). Each device of the
daemon is in the list, in the reply that is worked off or about to be announced
(`NoneMissed`), and one that is said to be removed does not come back (`FitQueue`). Every
step of the daemon is a `Report`: new messages at the end, of which the last on each
path tells of the new present. `ReportKeeps` is proved of any such report. A new
daemon's announcements are one per device, concatenated; that they are a
report is shown for the least prefix that is not one (`NewDaemonTells`), without
induction. That each device is in the list once (`OnceInv`) holds for one enumeration
and one daemon, as the property says: what is in the list is there or will be said
to be removed, and what is announced is not in it. The lengths are then equal because each
list enumerates the same set once (`SameLength`).

`UrfOfonoProofs`, for any modems, names of objects and number of inputs, from
`OfonoAssumption` alone:

* `OfonoTypes`. An object lives while one of its flags is set, and the flags stand for
  open calls; so the types need `Tracked`: a flag is set exactly while its call is with
  oFono or its answer waits, of each kind there is one call at most, and it is answered
  once (`CallsInv`).
* `OfonoModems`, `OfonoCurrent`. They speak of an empty queue, the invariant (`IInv`) of
  what the waiting messages are worth. The last NameOwnerChanged is the truth about oFono
  (`NameInv`); while it runs, the manager has its proxy or something waits that
  gives it one (`ServeInv`). A modem that is gone has its ModemRemoved, or oFono's end,
  behind all that would bring it in (`Leaving`); a modem that is there is in the list or
  heading for it, unless a question has failed (`Coming`). Of each property, an old value
  that waits has a newer one or an end behind it (`Latest`), and an object shows the
  present value or will be told (`Current`). The arbitrator has those of the listed
  objects that know themselves powered, and no two of its objects have an index in common
  until the assertion of the registration fails (`HadInv`).

  oFono's actions differ in what they send: what is shown of each is that a sequence
  with given messages at its end keeps the parts (`Sent`, `Grows`). A handler first reads
  the head (`Takes`), which can only have carried what the object or the list has now,
  then sends calls, of which an answer may already be on its way.

Only model-checked: liveness (`EveryCallAnswered`, `RequestEnds`,
`DepartedCleaned`, `Settles`, the liveness of the refinement), which TLAPS cannot
prove under fairness.

## Disagreements between the code and what is said of it

With a run, under `findings`: the assertion on the task in `soft_block_cb`
(`urf-killswitch.c:256`), the switch of sessions that is missed with logind
(`urf-seat-logind.c:80`), the object path that is given out twice
(`urf-ofono-manager.c:297`).

Met while modelling and in the modules, without a run of their own:

* the change to NO_ADAPTER is not signalled (`urf-killswitch.c:127`), although
  StateChanged is documented for each change;
* a device that appears during a walk is put behind it and is not asked;
* without devices Block, BlockIdx and FlightMode are not answered
  (`urf-daemon.c:300`): `Unanswered`;
* a key with the option `master_key` reaches the killswitch of type 0, which
  does not exist: `Key`;
* the other assertion of `soft_block_cb` (`urf-killswitch.c:253`) fails when a
  device is removed during its block: `NodeOf`, `del_device`;
* that of `block_idx_cb` (`urf-daemon.c:391`) fails when a modem is removed while
  BlockIdx waits for it: `StaleReturns`;
* Block of type 0, documented as All (`org.freedesktop.URfkill.xml:60`), reaches a
  killswitch that does not exist (`urf-arbitrator.c:855`): `Block`;
* a failed flight mode saves "not blocked" for the types without an adapter,
  which it had not toggled (`urf-arbitrator.c:280`): `FlightModeFailed`;
* a seat that is removed leaves `inhibit` as it was, against the description of
  IsInhibited (`org.freedesktop.URfkill.xml:158`): `seat_removed`;
* BlockIdx and a forced or saved state of one device write the whole type
  (`urf-device-kernel.c:213`), although documented for one device: `set_soft`;
* with `persist` and without `force_sync` a program that sets one device makes the
  saved state of its type differ from the other devices', so that the next device
  changes them (`urf-arbitrator.c:590`, `:455`): `single`;
* with `force_sync`, a device that is plugged in hard but not soft blocked is not
  soft blocked (`urf-arbitrator.c:450`), as one that becomes so is: `AddedWrites`;
* the saved state a call writes at its end may overwrite what another program has
  set meanwhile: `block_cb`;
* an object the manager has dropped hears PropertyChanged as long as it lives and
  gives itself to the arbitrator again (`urf-ofono-manager.c:123`):
  `modem_signal_cb`;
* an error of GetModems or GetProperties leaves modems unknown until oFono
  restarts (`urf-ofono-manager.c:197`): `Fail`;
* the client's killswitch shows UNBLOCKED from the daemon's end until the new one
  answers (`liburfkill-glib/urf-killswitch.c:104`): `name_owner_changed`;
* devices that go with the old daemon stay in the client's list, and a second
  enumeration adds all again (`liburfkill-glib/urf-client.c:209`): `add`;
* a match on something the machine does not tell holds (`urf-config.c:382`):
  `Holds`;
* the undo of a failed flight mode passes a state where a boolean is expected
  (`urf-arbitrator.c:278`), so that a type that was hard blocked only is asked for a
  soft block, although the comment (`:266`) says the killswitches are restored:
  `FlightModeFailed`; `FailureUndoes` claims what is true of it and would hold of a
  corrected undo;
* without DMI information `key_control` is cleared through a pointer that was never set
  (`urf-config.c:633`), so that it keeps its default TRUE if the process goes on,
  although the comment above (`:629`) and `NEWS:17` say it cannot be assumed to be
  enabled: `get_dmi_info`; `ConfOverProfile` leaves the case out;
* a match without an attribute that is an operator, which `profile.dtd` allows, is
  tried without a body, which ends the process whenever the machine tells what it asks
  for (`urf-config.c:381`, `:188`): `BodyMissing`;
* killed between the save of ALL and FlightModeChanged (`urf-daemon.c:581-593`), the
  daemon resumes a flight mode that was never announced, while the caller's request
  failed; a program that follows the signal (`debian/scripts/monitor-urfkill:97`) shows
  the old one: `Torn`, `Lost`;
* killed among the saves that end a flight mode, the daemon may have lost some of what it
  was to restore, or keep some of it when flight mode is off: `Torn`;
* the soft block of an adapter that is also hard blocked is not remembered by flight mode
  and is taken away when flight mode ends (`urf-arbitrator.c:307`): `Lossless`;
* after a failed flight mode the undo runs on while the next request is
  accepted, which fails the same assertion as a key does.

Seen in the code and outside the modules: Uninhibit never completes its
invocation (`urf-daemon.c:720`); the object of a kernel device never closes the
`/dev/rfkill` it opens (`urf-device-kernel.c:345`);
`urf_device_set_object_path_sync` of the library returns FALSE always
(`liburfkill-glib/urf-device.c:134` documents TRUE for success), and a device that
could not be read sends BlockIdx index 0 (`:98`); with `force_sync` and `persist`
both set, a modem refuses the second of the two blocks it is given when it appears
(`urf-arbitrator.c:451`, `:463`), so that the saved state is not applied; a seat
that could not be asked for its session is never asked again
(`urf-seat-consolekit.c:125`).

## What is left out, and the plan

Not modelled: the hybris device (not compiled by default, a synchronous vendor
call), input and polkit (no state; a key press and a refusal are inputs of
`UrfDaemon`), the getters of D-Bus properties, the library's calls that only
forward a method, tests and packaging.

Still worth doing: runs that compose a killswitch with the daemon in place of its
abstraction, and flight mode with the kernel of `UrfArbitrator`.
