-------------------------- MODULE UrfSessionChecker --------------------------
(***************************************************************************)
(* Who keeps the rfkill keys from working: the inhibitors of the clients,  *)
(* the active session of each seat and the cached answer `inhibit'         *)
(* (urf-session-checker-logind.c and urf-seat-logind.c, and the variants   *)
(* for ConsoleKit, which differ in how they follow the active session of a *)
(* seat).                                                                  *)
(*                                                                         *)
(* The bus tells the daemon later that a client is gone, so a call of a    *)
(* client may be handled after the client left.  Unique bus names are not  *)
(* used twice.                                                             *)
(***************************************************************************)
EXTENDS Naturals, Sequences

CONSTANTS
    SessionManagers, \* what urfkilld is built for: "logind" or "consolekit"
    Seats,          \* the seats there may be
    Sessions,       \* its sessions
    Buses,          \* the clients, by their unique bus name
    SessionOf,      \* the session of each client's process
    Cookies,        \* the cookies g_random_int_range may give; 0 is none
    MaxSignals      \* bound: signals of a seat that are still to be handled

NoSession == "/"    \* the object path for "no active session"

ASSUME CheckerAssumption ==
    /\ SessionManagers \subseteq {"logind", "consolekit"}
    /\ SessionOf \in [Buses -> Sessions]
    /\ Cookies \subseteq Nat \ {0}
    /\ NoSession \notin Sessions
    /\ MaxSignals \in Nat

VARIABLES
    session_manager, \* which of them this urfkilld is built for
    seats,          \* priv->seats, by object path
    active,         \* the active session of each seat, as UrfSeat has it
    session,        \* the session that is active on each seat
    signals,        \* of each seat: its changes that are still to be handled
    inhibitors,     \* priv->inhibitors
    inhibit,        \* priv->inhibit, the cached answer
    connected,      \* the clients on the bus
    departed,       \* those whose NameOwnerChanged is still to be handled
    cookie          \* the cookie each client got last, 0 for none

switches == <<session, signals>>
vars == <<session_manager, seats, active, switches, inhibitors, inhibit, connected, departed, cookie>>

Inhibitor == [bus : Buses, session : Sessions, cookie : Cookies]

TypeOK ==
    /\ session_manager \in SessionManagers
    /\ seats \subseteq Seats
    /\ active \in [Seats -> Sessions \cup {NoSession}]
    /\ session \in [Seats -> Sessions \cup {NoSession}]
    /\ signals \in [Seats -> Seq(Sessions \cup {NoSession})]
    /\ inhibitors \subseteq Inhibitor
    /\ inhibit \in BOOLEAN
    /\ connected \subseteq Buses
    /\ departed \subseteq Buses \ connected
    /\ cookie \in [Buses -> Cookies \cup {0}]

\* After urf_session_checker_get_seats: the seats there are and could be asked for
\* their active session, no inhibitor.
Init ==
    /\ session_manager \in SessionManagers
    /\ seats \in SUBSET Seats
    /\ session \in [Seats -> Sessions \cup {NoSession}]
    /\ active = [s \in Seats |-> IF s \in seats THEN session[s] ELSE NoSession]
    /\ signals = [s \in Seats |-> <<>>]
    /\ inhibitors = {}
    /\ inhibit = FALSE
    /\ connected = Buses
    /\ departed = {}
    /\ cookie = [b \in Buses |-> 0]

\* The active session of some seat has an inhibitor.
is_inhibited(known, act, inh) ==
    \E s \in known : \E i \in inh : i.session = act[s]

-----------------------------------------------------------------------------
\* Mutant: a client that calls again gets a second inhibitor.
Inhibit_Again(b) ==
    /\ b \in connected
    /\ \E c \in Cookies :
         /\ c \notin {i.cookie : i \in inhibitors}
         /\ inhibitors' = inhibitors \cup
                {[bus |-> b, session |-> SessionOf[b], cookie |-> c]}
         /\ cookie' = [cookie EXCEPT ![b] = c]
    /\ inhibit' = is_inhibited(seats, active, inhibitors')
    /\ UNCHANGED <<seats, active, switches, connected, departed>>

\* Mutant: an inhibitor is made although the session was not found.
Inhibit_NoSession(b) ==
    /\ b \in connected \cup departed
    /\ \A i \in inhibitors : i.bus # b
    /\ \E c \in Cookies, s \in {SessionOf[b], NoSession} :
         /\ \A i \in inhibitors : i.cookie # c
         /\ inhibitors' = inhibitors \cup {[bus |-> b, session |-> s, cookie |-> c]}
         /\ cookie' = [cookie EXCEPT ![b] = c]
    /\ inhibit' = is_inhibited(seats, active, inhibitors')
    /\ UNCHANGED <<seats, active, switches, connected, departed>>

\* A call of client b, which may have left.  A second one gets the first cookie;
\* the lookup of the session fails for a client that has left, and may fail.
Inhibit(b) ==
    /\ b \in connected \cup departed
    /\ \/ \E i \in inhibitors :
            /\ i.bus = b
            /\ cookie' = [cookie EXCEPT ![b] = i.cookie]
            /\ UNCHANGED <<inhibitors, inhibit>>
       \/ /\ \A i \in inhibitors : i.bus # b
          /\ cookie' = [cookie EXCEPT ![b] = 0]
          /\ UNCHANGED <<inhibitors, inhibit>>
       \/ /\ \A i \in inhibitors : i.bus # b
          /\ b \in connected
          /\ \E c \in Cookies :
               /\ \A i \in inhibitors : i.cookie # c
               /\ inhibitors' = inhibitors \cup
                      {[bus |-> b, session |-> SessionOf[b], cookie |-> c]}
               /\ cookie' = [cookie EXCEPT ![b] = c]
          /\ inhibit' = is_inhibited(seats, active, inhibitors')
    /\ UNCHANGED <<seats, active, switches, connected, departed>>

\* Mutant: the cached answer is computed before the inhibitor is removed.
remove_inhibitor_Early(i) ==
    /\ inhibitors' = inhibitors \ {i}
    /\ inhibit' = is_inhibited(seats, active, inhibitors)

remove_inhibitor(i) ==
    /\ inhibitors' = inhibitors \ {i}
    /\ inhibit' = is_inhibited(seats, active, inhibitors')

\* Any client may cancel with a cookie it knows of; an old cookie does nothing.
Uninhibit ==
    /\ \E i \in inhibitors : remove_inhibitor(i)
    /\ UNCHANGED <<seats, active, switches, connected, departed, cookie>>

\* A client leaves the bus ...
Leave(b) ==
    /\ b \in connected
    /\ connected' = connected \ {b}
    /\ departed' = departed \cup {b}
    /\ UNCHANGED <<seats, active, switches, inhibitors, inhibit, cookie>>

\* Mutant: only the inhibitors that are in effect are removed.
bus_owner_changed_Active(b) ==
    /\ b \in departed
    /\ departed' = departed \ {b}
    /\ \/ \E i \in inhibitors :
            i.bus = b /\ is_inhibited(seats, active, {i}) /\ remove_inhibitor(i)
       \/ /\ \A i \in inhibitors : i.bus # b \/ ~ is_inhibited(seats, active, {i})
          /\ UNCHANGED <<inhibitors, inhibit>>
    /\ UNCHANGED <<seats, active, switches, connected, cookie>>

\* ... and the daemon handles NameOwnerChanged: find_inhibitor_by_bus_name gives
\* one inhibitor.
bus_owner_changed(b) ==
    /\ b \in departed
    /\ departed' = departed \ {b}
    /\ \/ \E i \in inhibitors : i.bus = b /\ remove_inhibitor(i)
       \/ /\ \A i \in inhibitors : i.bus # b
          /\ UNCHANGED <<inhibitors, inhibit>>
    /\ UNCHANGED <<seats, active, switches, connected, cookie>>

\* Another session becomes active on a seat; a seat that is monitored signals it.
SwitchSession(s) ==
    /\ Len(signals[s]) < MaxSignals
    /\ \E n \in (Sessions \cup {NoSession}) \ {session[s]} :
         /\ session' = [session EXCEPT ![s] = n]
         /\ signals' = IF s \in seats THEN [signals EXCEPT ![s] = Append(@, n)]
                       ELSE signals
    /\ UNCHANGED <<seats, active, inhibitors, inhibit, connected, departed, cookie>>

\* Mutant: the cached answer is computed with the old session.
seat_active_changed_Early(s) ==
    /\ active' = [active EXCEPT ![s] = Head(signals[s])]
    /\ inhibit' = is_inhibited(seats, active, inhibitors)

\* The seat has told the checker of its new session.
seat_active_changed(s) ==
    /\ active' = [active EXCEPT ![s] = Head(signals[s])]
    /\ inhibit' = is_inhibited(seats, active', inhibitors)

\* ConsoleKit's ActiveSessionChanged brings the new session.
proxy_signal_cb(s) ==
    /\ session_manager = "consolekit"
    /\ seat_active_changed(s)

\* The handler for logind has the parameters of another signal: what it takes for
\* the name of a property never is "ActiveSession".
proxy_properties_changed(s) ==
    /\ session_manager = "logind"
    /\ UNCHANGED <<active, inhibit>>

\* The main loop hands a seat its signal.
HandleSignal(s) ==
    /\ signals[s] # <<>>
    /\ signals' = [signals EXCEPT ![s] = Tail(@)]
    /\ proxy_signal_cb(s) \/ proxy_properties_changed(s)
    /\ UNCHANGED <<seats, session, inhibitors, connected, departed, cookie>>

\* Mutant: a seat is not asked for its session, it waits for the first signal.
object_path_sync_Unasked(s) ==
    /\ active' = [active EXCEPT ![s] = NoSession]
    /\ signals' = [signals EXCEPT ![s] = <<>>]

\* The seat's proxy gets signals from then on, and the seat is asked for its active
\* session, the signal of which may be on its way.
object_path_sync(s) ==
    /\ active' = [active EXCEPT ![s] = session[s]]
    /\ \E missed \in {<<>>, <<session[s]>>} : signals' = [signals EXCEPT ![s] = missed]

\* SeatNew or SeatAdded: the session of a new seat is too new to have called
\* Inhibit.  The seat is left out for good when it cannot be asked.  Nothing
\* computes the cached answer again.
seat_added(s) ==
    /\ s \notin seats
    /\ session[s] \notin {i.session : i \in inhibitors}
    /\ seats' = seats \cup {s}
    /\ object_path_sync(s)
    /\ UNCHANGED <<session, inhibitors, inhibit, connected, departed, cookie>>

\* SeatRemoved: neither does this.
seat_removed(s) ==
    /\ s \in seats
    /\ seats' = seats \ {s}
    /\ active' = [active EXCEPT ![s] = NoSession]
    /\ signals' = [signals EXCEPT ![s] = <<>>]
    /\ UNCHANGED <<session, inhibitors, inhibit, connected, departed, cookie>>

Next ==
    /\ \/ \E b \in Buses : Inhibit(b) \/ Leave(b) \/ bus_owner_changed(b)
       \/ Uninhibit
       \/ \E s \in Seats : SwitchSession(s) \/ HandleSignal(s)
       \/ \E s \in Seats : seat_added(s) \/ seat_removed(s)
    /\ UNCHANGED session_manager

Spec == Init /\ [][Next]_vars

\* The main loop handles what the bus has told it.
Fairness ==
    \A b \in Buses : WF_vars(bus_owner_changed(b) /\ UNCHANGED session_manager)
FairSpec == Spec /\ Fairness

-----------------------------------------------------------------------------
(* Properties.                                                             *)

\* A client and a cookie stand for at most one inhibitor, so that the search by
\* name or by cookie finds the right one, and one departure removes everything
\* the client had.
OneInhibitor ==
    \A i, j \in inhibitors : i.bus = j.bus \/ i.cookie = j.cookie => i = j

\* A client that has left leaves no inhibitor behind: one that is still there
\* belongs to a client that is connected or whose departure is to be handled.
NoOrphan == \A i \in inhibitors : i.bus \in connected \cup departed

\* Without inhibitors the keys work, whatever seats came and went: no sequence of
\* calls leaves them inhibited for good.
KeysComeBack == inhibitors = {} => ~ inhibit

\* A key that is pressed while the session a seat is known to have asks to be left
\* alone is not acted upon: the cached answer misses no inhibitor, whatever order sessions
\* were switched, inhibitors came and went and seats appeared in.
InhibitRespected == is_inhibited(seats, active, inhibitors) => inhibit

\* "Inhibit the rfkill key handling function for the session": while the session
\* that a monitored seat really shows has an inhibitor, keys are not acted upon,
\* as soon as the signals of that seat are handled.
SessionRespected ==
    \A s \in seats : signals[s] = <<>> /\ is_inhibited({s}, session, inhibitors) => inhibit

\* What ConsoleKit's handler achieves of it, whatever order sessions are switched,
\* signals handled, seats changed and inhibitors made and cancelled in.
SessionFollowed == session_manager = "consolekit" => SessionRespected

\* The inhibitor of a client that left goes away.
DepartedCleaned ==
    \A b \in Buses : b \in departed ~> \A i \in inhibitors : i.bus # b
=============================================================================
