------------------------------- MODULE UrfOfono -------------------------------
(***************************************************************************)
(* The modems of oFono as urfkilld keeps them (urf-ofono-manager.c with    *)
(* urf-device-ofono.c): the manager's list, filled by GetModems and by     *)
(* signals, the objects of the modems with the D-Bus paths they occupy,    *)
(* and the powered ones among them, which the arbitrator has.              *)
(*                                                                         *)
(* What oFono and the bus send arrives in order; an action of urfkilld is  *)
(* the dispatch of one message.  An object lives as long as the manager,   *)
(* the killswitch, a call to oFono that is open or a caller of BlockIdx    *)
(* holds it, and its path is taken for that long.                          *)
(***************************************************************************)
EXTENDS Naturals, FiniteSets, SequencesExt

CONSTANTS
    Modems,         \* the paths oFono may give its modems
    Objects,        \* names for the UrfDeviceOfono, as many as are alive at once
    MaxInputs       \* bound: what oFono, clients and failing calls do

ASSUME OfonoAssumption ==
    /\ IsFiniteSet(Modems) /\ IsFiniteSet(Objects)
    /\ MaxInputs \in Nat

VARIABLES
    running,        \* oFono: it owns its name,
    modem,          \* its modems,
    calls,          \* and the calls it has not answered
    queue,          \* the messages that wait for urfkilld's main loop
    cancelled,      \* the state of ofono->cancellable
    proxy,          \* ofono->proxy; old ones that are still connected
    list,           \* ofono->devices, as a set: nobody looks at their order
    object,         \* the UrfDeviceOfono that are alive
    modem_idx,      \* counted from 100
    devices,        \* those of them that the arbitrator has
    aborted,        \* an object path was already taken
    inputs, failed  \* history: how many; a question to oFono has failed

ofonoVars   == <<running, modem, calls>>
managerVars == <<cancelled, proxy, list, modem_idx>>
vars == <<ofonoVars, queue, managerVars, object, devices, aborted, inputs, failed>>

States == {"absent", "off", "offline", "online"}
Powered(s) == s \in {"offline", "online"}
Present == {m \in Modems : modem[m] # "absent"}

\* A property of a modem is {} when it is not known.
Property == {{}, {TRUE}, {FALSE}}
Object == [modem : Modems, index : Nat, Powered : Property, Online : Property,
           asking : BOOLEAN, pending : BOOLEAN, leaked : BOOLEAN]
Alive == DOMAIN object

GetModems           == [call |-> "GetModems"]
GetProperties(o)    == [call |-> "GetProperties", obj |-> o]
SetProperty(o, on)  == [call |-> "SetProperty", obj |-> o, online |-> on]
Call == {GetModems} \cup {GetProperties(o) : o \in Objects}
                    \cup {SetProperty(o, on) : o \in Objects, on \in BOOLEAN}

NameOwnerChanged(up)         == [msg |-> "NameOwnerChanged", up |-> up]
ProxyReady(stale)            == [msg |-> "ProxyReady", stale |-> stale]
ModemAdded(m)                == [msg |-> "ModemAdded", modem |-> m]
ModemRemoved(m)              == [msg |-> "ModemRemoved", modem |-> m]
PropertyChanged(m, prop, v)  == [msg |-> "PropertyChanged", modem |-> m,
                                 prop |-> prop, value |-> v]
Reply(c, ok, modems, state)  == [msg |-> "Reply", call |-> c, ok |-> ok,
                                 modems |-> modems, state |-> state]
Error(c)                     == Reply(c, FALSE, {}, "absent")

Message ==
    {NameOwnerChanged(up) : up \in BOOLEAN} \cup {ProxyReady(s) : s \in BOOLEAN}
    \cup {ModemAdded(m) : m \in Modems} \cup {ModemRemoved(m) : m \in Modems}
    \cup {PropertyChanged(m, p, v) :
             m \in Modems, p \in {"Powered", "Online"}, v \in BOOLEAN}
    \cup {Reply(c, ok, ms, s) :
             c \in Call, ok \in BOOLEAN, ms \in SUBSET Modems, s \in States}

\* Those who hold a reference are those the object knows of: the calls that are
\* open are in the hands of oFono or their answers in the queue.
Open(c) == c \in calls \/ \E i \in DOMAIN queue : queue[i].msg = "Reply"
                                                   /\ queue[i].call = c

TypeOK ==
    /\ running \in BOOLEAN
    /\ modem \in [Modems -> States]
    /\ calls \subseteq Call
    /\ queue \in Seq(Message)
    /\ cancelled \in BOOLEAN
    /\ proxy \in [current : BOOLEAN, leaked : BOOLEAN]
    /\ list \subseteq Alive
    /\ Alive \subseteq Objects
    /\ object \in [Alive -> Object]
    /\ \A o \in Alive :
         /\ object[o].asking = Open(GetProperties(o))
         /\ object[o].pending = \E on \in BOOLEAN : Open(SetProperty(o, on))
    /\ modem_idx \in Nat
    /\ devices \subseteq Alive
    /\ aborted \in BOOLEAN
    /\ inputs \in 0..MaxInputs
    /\ failed \in BOOLEAN

Init ==
    /\ running = FALSE
    /\ modem = [m \in Modems |-> "absent"]
    /\ calls = {}
    /\ queue = <<>>
    /\ cancelled = FALSE
    /\ proxy = [current |-> FALSE, leaked |-> FALSE]
    /\ list = {}
    /\ object = <<>>
    /\ modem_idx = 0
    /\ devices = {}
    /\ aborted = FALSE
    /\ inputs = 0
    /\ failed = FALSE

-----------------------------------------------------------------------------
(* oFono and the bus.                                                      *)

\* oFono takes its name; it has found some modems already.
Start ==
    /\ ~ running
    /\ running' = TRUE
    /\ modem' \in [Modems -> States]
    /\ queue' = Append(queue, NameOwnerChanged(TRUE))
    /\ UNCHANGED calls

\* oFono exits or crashes: the bus tells of the name, then answers its calls.
Stop ==
    /\ running
    /\ running' = FALSE
    /\ modem' = [m \in Modems |-> "absent"]
    /\ queue' = Append(queue, NameOwnerChanged(FALSE))
                \o SetToSeq({Error(c) : c \in calls})
    /\ calls' = {}

\* A modem appears or disappears, is powered or not, goes on line or not.
ModemAppears(m) ==
    /\ running /\ modem[m] = "absent"
    /\ modem' = [modem EXCEPT ![m] = "off"]
    /\ queue' = Append(queue, ModemAdded(m))
    /\ UNCHANGED <<running, calls>>

\* Its calls are cancelled first.
ModemDisappears(m) ==
    /\ running /\ modem[m] # "absent"
    /\ modem' = [modem EXCEPT ![m] = "absent"]
    /\ LET open == {c \in calls : c # GetModems /\ c.obj \in Alive
                                   /\ object[c.obj].modem = m}
       IN /\ queue' = queue \o SetToSeq({Error(c) : c \in open}) \o <<ModemRemoved(m)>>
          /\ calls' = calls \ open
    /\ UNCHANGED running

ModemPowers(m) ==
    /\ running /\ modem[m] # "absent"
    /\ modem' = [modem EXCEPT ![m] = IF Powered(@) THEN "off" ELSE "offline"]
    /\ queue' = queue \o (IF modem[m] = "online"
                          THEN <<PropertyChanged(m, "Online", FALSE)>> ELSE <<>>)
                      \o <<PropertyChanged(m, "Powered", Powered(modem'[m]))>>
    /\ UNCHANGED <<running, calls>>

\* oFono answers a call: what it is asked and told.
AnswerGetModems ==
    /\ GetModems \in calls
    /\ queue' = Append(queue, Reply(GetModems, TRUE, Present, "absent"))
    /\ calls' = calls \ {GetModems}
    /\ UNCHANGED <<running, modem>>

AnswerGetProperties ==
    \E o \in Alive :
        /\ GetProperties(o) \in calls
        /\ LET state == modem[object[o].modem] IN
             queue' = Append(queue, Reply(GetProperties(o), state # "absent", {}, state))
        /\ calls' = calls \ {GetProperties(o)}
        /\ UNCHANGED <<running, modem>>

\* A modem that is not powered does not go on line.
AnswerSetProperty ==
    \E o \in Alive, on \in BOOLEAN :
        LET c == SetProperty(o, on)
            m == object[o].modem
            done == Reply(c, TRUE, {}, "absent")
        IN /\ c \in calls
           /\ \/ /\ Powered(modem[m])
                 /\ modem' = [modem EXCEPT ![m] = IF on THEN "online" ELSE "offline"]
                 /\ queue' = IF modem' = modem THEN Append(queue, done)
                             ELSE queue \o <<PropertyChanged(m, "Online", on), done>>
              \/ /\ ~ Powered(modem[m])
                 /\ queue' = Append(queue, Error(c))
                 /\ UNCHANGED modem
           /\ calls' = calls \ {c}
           /\ UNCHANGED running

\* A call fails, or its answer does not come in time.
Fail(c) ==
    /\ c \in calls
    /\ queue' = Append(queue, Error(c))
    /\ calls' = calls \ {c}
    /\ UNCHANGED <<running, modem>>

Ofono ==
    /\ AnswerGetModems \/ AnswerGetProperties \/ AnswerSetProperty
    /\ UNCHANGED <<managerVars, object, devices, aborted, inputs, failed>>

-----------------------------------------------------------------------------
(* The object of a modem.                                                  *)

\* A call is addressed to the oFono its proxy knows: a proxy just made knows the one
\* that is running, any other learns from the message that it is gone.
Fresh == running
Known(q) == running /\ \A i \in DOMAIN q : q[i] # NameOwnerChanged(FALSE)

\* The bus itself answers a call that reaches nobody.
Send(cs, reached, q) ==
    \/ /\ reached
       /\ calls' = calls \cup cs
       /\ queue' = q
    \/ /\ ~ reached
       /\ queue' = q \o SetToSeq({Error(c) : c \in cs})
       /\ UNCHANGED calls

\* Objects nobody holds any more are disposed of, and their paths are free.
Held(o, obj, listed, devs) ==
    o \in listed \cup devs \/ obj[o].asking \/ obj[o].pending \/ obj[o].leaked
dispose(obj, listed, devs) ==
    Restrict(obj, {o \in DOMAIN obj : Held(o, obj, listed, devs)})

\* set_soft: one call at a time; the objects os are told the same.
set_soft(os, obj, q) ==
    LET free == {o \in os : ~ obj[o].pending} IN
    \E on \in BOOLEAN :
        /\ Send({SetProperty(o, on) : o \in free}, Known(q), q)
        /\ object' = [o \in DOMAIN obj |-> IF o \in free
                                           THEN [obj[o] EXCEPT !.pending = TRUE]
                                           ELSE obj[o]]

\* Mutant: the first value is taken for no change.
PoweredSignals_Known(os, obj, value) ==
    {o \in os : obj[o].Powered = {~ value}}

\* The objects that signal "ofono-device-powered": that the modem is powered, when
\* nothing was known of it, and a change of what was.
PoweredSignals(os, obj, value) ==
    {o \in os : obj[o].Powered = {~ value} \/ (obj[o].Powered = {} /\ value)}

\* update_powered and device_powered_cb: the arbitrator takes a modem that is powered,
\* and applies the saved state to it, and gives up one that is not.
update_powered(os, obj, value, q) ==
    LET signals == PoweredSignals(os, obj, value)
        known == [o \in DOMAIN obj |-> IF o \in os
                                       THEN [obj[o] EXCEPT !.Powered = {value}]
                                       ELSE obj[o]]
        new == {o \in signals : \A d \in devices : obj[d].index # obj[o].index}
    IN \/ /\ value
          /\ devices' = devices \cup new
          /\ set_soft(new, known, q)
       \/ /\ ~ value
          /\ devices' = devices \ signals
          /\ object' = dispose(known, list, devices')
          /\ queue' = q
          /\ UNCHANGED calls

\* modem_signal_cb, of every object of the modem: those that the manager has
\* dropped listen for as long as they live.
modem_signal_cb(e, q) ==
    LET os == {o \in Alive : object[o].modem = e.modem} IN
    /\ \/ /\ e.prop = "Powered"
          /\ update_powered(os, object, e.value, q)
       \/ /\ e.prop = "Online"
          /\ object' = [o \in Alive |-> IF o \in os
                                        THEN [object[o] EXCEPT !.Online = {e.value}]
                                        ELSE object[o]]
          /\ queue' = q
          /\ UNCHANGED <<calls, devices>>
    /\ UNCHANGED <<managerVars, aborted>>

\* Mutant: an object without an answer is not given up.
get_properties_cb_Held(e, q) ==
    LET o == e.call.obj IN
    /\ \/ /\ e.ok
          /\ update_powered({o}, [object EXCEPT ![o].Online = {e.state = "online"}],
                            Powered(e.state), q)
       \/ /\ ~ e.ok
          /\ queue' = q
          /\ UNCHANGED <<calls, devices, object>>
    /\ UNCHANGED <<managerVars, aborted>>

get_properties_cb(e, q) ==
    LET o == e.call.obj
        obj == [object EXCEPT ![o].asking = FALSE]
    IN /\ \/ /\ e.ok
             /\ update_powered({o}, [obj EXCEPT ![o].Online = {e.state = "online"}],
                               Powered(e.state), q)
          \/ /\ ~ e.ok
             /\ object' = dispose(obj, list, devices)
             /\ queue' = q
             /\ UNCHANGED <<calls, devices>>
       /\ UNCHANGED <<managerVars, aborted>>

set_online_cb(e, q) ==
    /\ object' = dispose([object EXCEPT ![e.call.obj].pending = FALSE], list, devices)
    /\ queue' = q
    /\ UNCHANGED <<calls, devices, managerVars, aborted>>

-----------------------------------------------------------------------------
(* The manager.                                                            *)

find_modem(m) == {o \in list : object[o].modem = m}

\* New objects for modems; the assertion is on the paths of the objects, which are
\* their indices.  The names of the objects are a bound.
urf_device_ofono_new(modems, q) ==
    LET new == SetToSeq(modems)
        n == Len(new)
        free == SetToSeq(Objects \ Alive)
        ids == {free[i] : i \in 1..n}
        indices == modem_idx..(modem_idx + n - 1)
    IN   /\ n <= Len(free)
         /\ object' = [o \in Alive \cup ids |->
                         IF o \in Alive THEN object[o]
                         ELSE LET i == CHOOSE i \in 1..n : free[i] = o IN
                              [modem |-> new[i], index |-> modem_idx + i - 1,
                               Powered |-> {}, Online |-> {},
                               asking |-> TRUE, pending |-> FALSE, leaked |-> FALSE]]
         /\ aborted' = \E o \in Alive : object[o].index \in indices
         /\ list' = list \cup ids
         /\ modem_idx' = modem_idx + n
         /\ Send({GetProperties(o) : o \in ids}, Fresh, q)
         /\ UNCHANGED devices

\* Mutant: nobody looks whether the modem is known.
add_modem_Unchecked(ms, q) == urf_device_ofono_new(ms, q)

add_modem(ms, q) == urf_device_ofono_new({m \in ms : find_modem(m) = {}}, q)

remove_modem(m, q) ==
    /\ list' = list \ find_modem(m)
    /\ devices' = devices \ find_modem(m)
    /\ object' = dispose(object, list', devices')
    /\ queue' = q
    /\ UNCHANGED <<calls, modem_idx, aborted>>

ofono_get_modems_cb(e, q) ==
    /\ \/ /\ e.ok /\ proxy.current
          /\ add_modem(e.modems, q)
       \/ /\ ~ (e.ok /\ proxy.current)
          /\ queue' = q
          /\ UNCHANGED <<calls, object, list, modem_idx, devices, aborted>>
    /\ UNCHANGED <<cancelled, proxy>>

\* Nothing comes before the proxy is connected.
ofono_signal_cb(e, q) ==
    /\ \/ /\ ~ (proxy.current \/ proxy.leaked)
          /\ queue' = q
          /\ UNCHANGED <<calls, object, list, modem_idx, devices, aborted>>
       \/ /\ proxy.current \/ proxy.leaked
          /\ e.msg = "ModemAdded"
          /\ add_modem({e.modem}, q)
       \/ /\ proxy.current \/ proxy.leaked
          /\ e.msg = "ModemRemoved"
          /\ remove_modem(e.modem, q)
    /\ UNCHANGED <<cancelled, proxy>>

\* A proxy that was being made when oFono vanished fails if the cancellable has
\* not been reset, and may fail if it has.  One that another replaces is leaked.
ofono_proxy_ready_cb(e, q) ==
    /\ \/ /\ cancelled \/ e.stale
          /\ proxy' = [current |-> FALSE, leaked |-> proxy.leaked \/ proxy.current]
          /\ queue' = q
          /\ UNCHANGED <<calls, cancelled>>
       \/ /\ ~ cancelled
          /\ proxy' = [current |-> TRUE, leaked |-> proxy.leaked \/ proxy.current]
          /\ cancelled' = FALSE
          /\ Send({GetModems}, Fresh, q)
    /\ UNCHANGED <<object, list, modem_idx, devices, aborted>>

on_ofono_appeared(q) ==
    /\ cancelled' = FALSE
    /\ queue' = Append(q, ProxyReady(FALSE))
    /\ UNCHANGED <<calls, proxy, list, modem_idx, object, devices, aborted>>

\* The cancellable: a proxy in the making is a stale one, GetModems is over.
cancel(q) ==
    LET stale == [i \in DOMAIN q |-> IF q[i].msg = "ProxyReady" THEN ProxyReady(TRUE)
                                     ELSE q[i]]
    IN /\ calls' = calls \ {GetModems}
       /\ queue' = stale \o (IF GetModems \in calls THEN <<Error(GetModems)>> ELSE <<>>)

on_ofono_vanished(q) ==
    /\ cancelled' = TRUE
    /\ proxy' = [proxy EXCEPT !.current = FALSE]
    /\ list' = {}
    /\ devices' = devices \ list
    /\ object' = dispose(object, {}, devices')
    /\ modem_idx' = 0
    /\ cancel(q)
    /\ UNCHANGED aborted

\* The main loop dispatches the next message.
Dispatch ==
    /\ ~ aborted
    /\ queue # <<>>
    /\ LET e == Head(queue)
           q == Tail(queue)
       IN \/ e.msg = "NameOwnerChanged" /\ e.up /\ on_ofono_appeared(q)
          \/ e.msg = "NameOwnerChanged" /\ ~ e.up /\ on_ofono_vanished(q)
          \/ e.msg = "ProxyReady" /\ ofono_proxy_ready_cb(e, q)
          \/ e.msg \in {"ModemAdded", "ModemRemoved"} /\ ofono_signal_cb(e, q)
          \/ e.msg = "PropertyChanged" /\ modem_signal_cb(e, q)
          \/ /\ e.msg = "Reply"
             /\ \/ e.call.call = "GetModems" /\ ofono_get_modems_cb(e, q)
                \/ e.call.call = "GetProperties" /\ get_properties_cb(e, q)
                \/ e.call.call = "SetProperty" /\ set_online_cb(e, q)
    /\ UNCHANGED <<running, modem, inputs, failed>>

-----------------------------------------------------------------------------

\* Block reaches a modem that the arbitrator has.  So does BlockIdx, which keeps
\* the reference that urf_arbitrator_get_device has given it, also when the call
\* goes no further.
Block(o) ==
    set_soft({o}, object, queue)

urf_daemon_block_idx(o) ==
    LET obj == [object EXCEPT ![o].leaked = TRUE] IN
    \/ set_soft({o}, obj, queue)
    \/ object' = obj /\ UNCHANGED <<calls, queue>>

Input ==
    /\ ~ aborted
    /\ inputs < MaxInputs
    /\ inputs' = inputs + 1
    /\ \/ /\ \/ Start \/ Stop
             \/ \E m \in Modems : ModemAppears(m) \/ ModemDisappears(m) \/ ModemPowers(m)
          /\ UNCHANGED <<object, failed>>
       \/ /\ \E c \in Call : Fail(c) /\ failed' = (failed \/ c.call # "SetProperty")
          /\ UNCHANGED object
       \/ /\ \E o \in devices : Block(o) \/ urf_daemon_block_idx(o)
          /\ UNCHANGED <<running, modem, failed>>
    /\ UNCHANGED <<managerVars, devices, aborted>>

Next == Ofono \/ Dispatch \/ Input

Spec == Init /\ [][Next]_vars

-----------------------------------------------------------------------------
(* Properties.                                                             *)

Drained == queue = <<>> /\ calls = {} /\ ~ aborted /\ ~ failed

\* However GetModems, the signals of oFono and its restarts interleave, once
\* everything is handled the manager has every modem of oFono once and no other.
ModemsKnown ==
    Drained => /\ {object[o].modem : o \in list} = Present
               /\ Cardinality(list) = Cardinality(Present)

\* Of its modems the arbitrator has those that are powered, and each object tells
\* whether its modem is on line: GetProperties' answer undoes no later signal.
ModemsCurrent ==
    Drained => \A o \in list :
        LET state == modem[object[o].modem] IN
        /\ o \in devices <=> Powered(state)
        /\ object[o].Powered = {Powered(state)}
        /\ object[o].Online = {state = "online"}

\* "All modems removed, reset id" and the assertion in urf_device_register_device:
\* a path that is given out again is free.
PathsFree == ~ aborted
=============================================================================
