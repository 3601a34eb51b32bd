----------------------- MODULE UrfSessionCheckerProofs -----------------------
(***************************************************************************)
(* Proofs about UrfSessionChecker, for any seats, sessions, clients and    *)
(* cookies.                                                                *)
(***************************************************************************)
EXTENDS UrfSessionChecker, SequenceTheorems, TLAPS

\* The sessions a seat may show.
Shown == Sessions \cup {NoSession}

\* The head of a queue, and what is last when it is taken off or another is put in.
LEMMA QueueFacts ==
    ASSUME NEW q \in Seq(Shown)
    PROVE  /\ q # <<>> => /\ Head(q) \in Shown /\ Tail(q) \in Seq(Shown)
                          /\ IF Tail(q) = <<>> THEN Head(q) = q[Len(q)]
                             ELSE Tail(q)[Len(Tail(q))] = q[Len(q)]
           /\ \A n \in Shown : /\ Append(q, n) \in Seq(Shown) /\ Append(q, n) # <<>>
                               /\ Append(q, n)[Len(Append(q, n))] = n
<1>1. ASSUME q # <<>>
      PROVE  /\ Head(q) \in Shown /\ Tail(q) \in Seq(Shown)
             /\ IF Tail(q) = <<>> THEN Head(q) = q[Len(q)]
                ELSE Tail(q)[Len(Tail(q))] = q[Len(q)]
  <2>1. Head(q) \in Shown /\ Tail(q) \in Seq(Shown) /\ Len(Tail(q)) = Len(q) - 1
    BY <1>1, HeadTailProperties
  <2>2. Len(q) \in Nat \ {0}
    BY <1>1, EmptySeq
  <2>3. CASE Tail(q) = <<>>
    <3>0. Len(Tail(q)) = 0
      BY <2>3, EmptySeq
    <3>1. Len(q) = 1
      <4> DEFINE m == Len(q)
                 n == Len(Tail(q))
      <4>1. m \in Nat /\ n = m - 1 /\ n = 0
        BY <2>1, <2>2, <3>0
      <4> HIDE DEF m, n
      <4>2. m = 1
        BY <4>1
      <4> QED
        BY <4>2 DEF m
    <3>2. Head(q) = q[1]
      BY <1>1
    <3> QED
      BY <2>1, <2>3, <3>1, <3>2
  <2>4. CASE Tail(q) # <<>>
    <3>1. Len(Tail(q)) \in Nat \ {0}
      BY <2>1, <2>4, EmptySeq
    <3>2. Len(Tail(q)) \in 1..Len(Tail(q)) /\ Len(Tail(q)) + 1 = Len(q)
      BY <2>1, <2>2, <3>1
    <3>3. Tail(q)[Len(Tail(q))] = q[Len(Tail(q)) + 1]
      BY <1>1, <3>2, HeadTailProperties
    <3> QED
      BY <2>1, <2>4, <3>2, <3>3
  <2> QED
    BY <2>3, <2>4
<1>2. ASSUME NEW n \in Shown
      PROVE  /\ Append(q, n) \in Seq(Shown) /\ Append(q, n) # <<>>
             /\ Append(q, n)[Len(Append(q, n))] = n
  BY AppendProperties
<1> QED
  BY <1>1, <1>2

\* The variables keep their types: in particular a client is never both on the
\* bus and waiting for its departure to be handled.
THEOREM TypeCorrect == Spec => []TypeOK
<1> USE CheckerAssumption DEF CheckerAssumption
<1>1. Init => TypeOK
  <2> SUFFICES ASSUME Init PROVE TypeOK
    OBVIOUS
  <2>1. active \in [Seats -> Shown] /\ signals \in [Seats -> Seq(Shown)]
    BY EmptySeq DEF Init, Shown
  <2> QED
    BY <2>1 DEF Init, TypeOK, Inhibitor, Shown
<1>2. TypeOK /\ [Next]_vars => TypeOK'
  <2> SUFFICES ASSUME TypeOK, [Next]_vars PROVE TypeOK'
    OBVIOUS
  <2> USE DEF TypeOK
  <2> USE DEF switches
  <2>0. session_manager' \in SessionManagers
    BY DEF Next, vars
  <2>1. ASSUME NEW b \in Buses, Inhibit(b) PROVE TypeOK'
    <3>1. inhibitors' \subseteq Inhibitor
      BY <2>1 DEF Inhibit, Inhibitor
    <3>2. inhibit' \in BOOLEAN
      BY <2>1 DEF Inhibit, is_inhibited
    <3>3. cookie' \in [Buses -> Cookies \cup {0}]
      BY <2>1 DEF Inhibit, Inhibitor
    <3> QED
      BY <2>0, <2>1, <3>1, <3>2, <3>3 DEF Inhibit
  <2>2. ASSUME NEW b \in Buses, Leave(b) PROVE TypeOK'
    BY <2>0, <2>2 DEF Leave
  <2>3. ASSUME NEW b \in Buses, bus_owner_changed(b) PROVE TypeOK'
    BY <2>0, <2>3 DEF bus_owner_changed, remove_inhibitor, is_inhibited
  <2>4. ASSUME Uninhibit PROVE TypeOK'
    BY <2>0, <2>4 DEF Uninhibit, remove_inhibitor, is_inhibited
  <2>5. ASSUME NEW s \in Seats, SwitchSession(s) PROVE TypeOK'
    <3>1. PICK n \in Shown :
              /\ session' = [session EXCEPT ![s] = n]
              /\ signals' = IF s \in seats THEN [signals EXCEPT ![s] = Append(@, n)]
                            ELSE signals
      BY <2>5 DEF SwitchSession, Shown
    <3>2. Append(signals[s], n) \in Seq(Shown)
      BY QueueFacts DEF Shown
    <3> QED
      BY <2>0, <2>5, <3>1, <3>2 DEF SwitchSession, Shown
  <2>6. ASSUME NEW s \in Seats, HandleSignal(s) PROVE TypeOK'
    <3>1. Head(signals[s]) \in Shown /\ Tail(signals[s]) \in Seq(Shown)
      BY <2>6, QueueFacts DEF HandleSignal, proxy_signal_cb,
             proxy_properties_changed, Shown
    <3>2. active' \in [Seats -> Shown] /\ inhibit' \in BOOLEAN
      BY <2>6, <3>1 DEF HandleSignal, proxy_signal_cb, proxy_properties_changed,
             seat_active_changed, is_inhibited, Shown
    <3>3. signals' \in [Seats -> Seq(Shown)]
      BY <2>6, <3>1 DEF HandleSignal, proxy_signal_cb, proxy_properties_changed,
             Shown
    <3> QED
      BY <2>0, <2>6, <3>2, <3>3 DEF HandleSignal, proxy_signal_cb,
             proxy_properties_changed, Shown
  <2>7. ASSUME NEW s \in Seats, seat_added(s) PROVE TypeOK'
    <3>1. session[s] \in Shown
      BY DEF Shown
    <3>2. <<>> \in Seq(Shown) /\ <<session[s]>> \in Seq(Shown)
      BY <3>1
    <3>3. signals' \in [Seats -> Seq(Shown)]
      BY <2>7, <3>2 DEF seat_added, object_path_sync, Shown
    <3> QED
      BY <2>0, <2>7, <3>1, <3>3 DEF seat_added, object_path_sync, Shown
  <2>8. ASSUME NEW s \in Seats, seat_removed(s) PROVE TypeOK'
    <3>1. signals' \in [Seats -> Seq(Shown)]
      BY <2>8 DEF seat_removed, Shown
    <3> QED
      BY <2>0, <2>8, <3>1 DEF seat_removed, Shown
  <2>9. CASE UNCHANGED vars
    BY <2>9 DEF vars
  <2> QED
    BY <2>1, <2>2, <2>3, <2>4, <2>5, <2>6, <2>7, <2>8, <2>9 DEF Next
<1> QED
  BY <1>1, <1>2, PTL DEF Spec

\* A client and a cookie stand for at most one inhibitor: a second Inhibit gives
\* the first cookie again, and a new cookie is drawn until nobody has it.
THEOREM InhibitorUnique == Spec => []OneInhibitor
<1>1. Init => OneInhibitor
  BY DEF Init, OneInhibitor
<1>2. TypeOK /\ OneInhibitor /\ [Next]_vars => OneInhibitor'
  <2> SUFFICES ASSUME TypeOK, OneInhibitor, [Next]_vars PROVE OneInhibitor'
    OBVIOUS
  <2> USE DEF OneInhibitor
  <2>1. ASSUME NEW b \in Buses, Inhibit(b) PROVE OneInhibitor'
    BY <2>1 DEF Inhibit
  <2>2. ASSUME NEW b \in Buses, bus_owner_changed(b) PROVE OneInhibitor'
    BY <2>2 DEF bus_owner_changed, remove_inhibitor
  <2>3. ASSUME Uninhibit PROVE OneInhibitor'
    BY <2>3 DEF Uninhibit, remove_inhibitor
  <2>4. ASSUME inhibitors' = inhibitors PROVE OneInhibitor'
    BY <2>4
  <2>5. ASSUME NEW b \in Buses, Leave(b) PROVE inhibitors' = inhibitors
    BY <2>5 DEF Leave
  <2>6. ASSUME NEW s \in Seats,
               SwitchSession(s) \/ HandleSignal(s) \/ seat_added(s) \/ seat_removed(s)
        PROVE inhibitors' = inhibitors
    BY <2>6 DEF SwitchSession, HandleSignal, proxy_signal_cb,
           proxy_properties_changed, seat_added, object_path_sync, seat_removed
  <2>7. CASE UNCHANGED vars
    BY <2>4, <2>7 DEF vars
  <2> QED
    BY <2>1, <2>2, <2>3, <2>4, <2>5, <2>6, <2>7 DEF Next
<1> QED
  BY <1>1, <1>2, TypeCorrect, PTL DEF Spec

\* Whoever has an inhibitor is on the bus, or its departure is still to be
\* handled.  The step that handles it takes away the only inhibitor the client
\* has (InhibitorUnique), and its later calls are refused.
THEOREM NoneOrphaned == Spec => []NoOrphan
<1>1. Init => NoOrphan
  BY DEF Init, NoOrphan
<1>2. TypeOK /\ OneInhibitor /\ NoOrphan /\ [Next]_vars => NoOrphan'
  <2> SUFFICES ASSUME TypeOK, OneInhibitor, NoOrphan, [Next]_vars PROVE NoOrphan'
    OBVIOUS
  <2> USE DEF NoOrphan
  <2>1. ASSUME NEW b \in Buses, Inhibit(b) PROVE NoOrphan'
    BY <2>1 DEF Inhibit
  <2>2. ASSUME NEW b \in Buses, Leave(b) PROVE NoOrphan'
    BY <2>2 DEF Leave
  <2>3. ASSUME NEW b \in Buses, bus_owner_changed(b) PROVE NoOrphan'
    <3>1. \A i \in inhibitors' : i \in inhibitors /\ i.bus # b
      BY <2>3 DEF bus_owner_changed, remove_inhibitor, OneInhibitor
    <3> QED
      BY <2>3, <3>1 DEF bus_owner_changed
  <2>4. ASSUME Uninhibit PROVE NoOrphan'
    BY <2>4 DEF Uninhibit, remove_inhibitor
  <2>5. ASSUME NEW s \in Seats,
               SwitchSession(s) \/ HandleSignal(s) \/ seat_added(s) \/ seat_removed(s)
        PROVE NoOrphan'
    BY <2>5 DEF SwitchSession, HandleSignal, proxy_signal_cb,
           proxy_properties_changed, seat_added, object_path_sync, seat_removed
  <2>6. CASE UNCHANGED vars
    BY <2>6 DEF vars
  <2> QED
    BY <2>1, <2>2, <2>3, <2>4, <2>5, <2>6 DEF Next
<1> QED
  BY <1>1, <1>2, TypeCorrect, InhibitorUnique, PTL DEF Spec

\* Without inhibitors the keys work: every step that takes an inhibitor away
\* computes the cached answer from what is left, and no other step sets it.
THEOREM KeysReturn == Spec => []KeysComeBack
<1>1. Init => KeysComeBack
  BY DEF Init, KeysComeBack
<1>2. KeysComeBack /\ [Next]_vars => KeysComeBack'
  <2> SUFFICES ASSUME KeysComeBack, [Next]_vars PROVE KeysComeBack'
    OBVIOUS
  <2> USE DEF KeysComeBack
  <2>1. ASSUME NEW b \in Buses, Inhibit(b) PROVE KeysComeBack'
    BY <2>1 DEF Inhibit, is_inhibited
  <2>2. ASSUME NEW b \in Buses, Leave(b) PROVE KeysComeBack'
    BY <2>2 DEF Leave
  <2>3. ASSUME NEW b \in Buses, bus_owner_changed(b) PROVE KeysComeBack'
    BY <2>3 DEF bus_owner_changed, remove_inhibitor, is_inhibited
  <2>4. ASSUME Uninhibit PROVE KeysComeBack'
    BY <2>4 DEF Uninhibit, remove_inhibitor, is_inhibited
  <2>5. ASSUME NEW s \in Seats, HandleSignal(s) PROVE KeysComeBack'
    BY <2>5 DEF HandleSignal, proxy_signal_cb, proxy_properties_changed,
           seat_active_changed, is_inhibited
  <2>6. ASSUME NEW s \in Seats, SwitchSession(s) \/ seat_added(s) \/ seat_removed(s)
        PROVE KeysComeBack'
    BY <2>6 DEF SwitchSession, seat_added, object_path_sync, seat_removed
  <2>7. CASE UNCHANGED vars
    BY <2>7 DEF vars
  <2> QED
    BY <2>1, <2>2, <2>3, <2>4, <2>5, <2>6, <2>7 DEF Next
<1> QED
  BY <1>1, <1>2, PTL DEF Spec

\* A key is never acted upon while the active session of a seat has an inhibitor:
\* seats that come bring no inhibitor and seats that go only take them away.
THEOREM InhibitorsRespected == Spec => []InhibitRespected
<1>1. Init => InhibitRespected
  BY DEF Init, InhibitRespected, is_inhibited
<1>2. TypeOK /\ InhibitRespected /\ [Next]_vars => InhibitRespected'
  <2> SUFFICES ASSUME TypeOK, InhibitRespected, [Next]_vars PROVE InhibitRespected'
    OBVIOUS
  <2> USE DEF InhibitRespected
  <2>1. ASSUME NEW b \in Buses, Inhibit(b) PROVE InhibitRespected'
    <3>1. seats' = seats /\ active' = active
      BY <2>1 DEF Inhibit
    <3>2. \/ inhibitors' = inhibitors /\ inhibit' = inhibit
          \/ inhibit' = is_inhibited(seats, active, inhibitors')
      BY <2>1 DEF Inhibit
    <3> QED
      BY <3>1, <3>2
  <2>2. ASSUME NEW b \in Buses, Leave(b) PROVE InhibitRespected'
    BY <2>2 DEF Leave, is_inhibited
  <2>3. ASSUME NEW b \in Buses, bus_owner_changed(b) PROVE InhibitRespected'
    <3>1. seats' = seats /\ active' = active
      BY <2>3 DEF bus_owner_changed
    <3>2. \/ inhibitors' = inhibitors /\ inhibit' = inhibit
          \/ inhibit' = is_inhibited(seats, active, inhibitors')
      BY <2>3 DEF bus_owner_changed, remove_inhibitor
    <3> QED
      BY <3>1, <3>2
  <2>4. ASSUME Uninhibit PROVE InhibitRespected'
    BY <2>4 DEF Uninhibit, remove_inhibitor, is_inhibited
  <2>5. ASSUME NEW s \in Seats, SwitchSession(s) \/ HandleSignal(s) PROVE InhibitRespected'
    BY <2>5 DEF SwitchSession, HandleSignal, proxy_signal_cb,
           proxy_properties_changed, seat_active_changed, is_inhibited
  <2>6. ASSUME NEW s \in Seats, seat_added(s) PROVE InhibitRespected'
    <3>1. \A r \in seats' : \A i \in inhibitors : i.session = active'[r]
             => r \in seats /\ i.session = active[r]
      BY <2>6 DEF seat_added, object_path_sync, TypeOK
    <3>2. is_inhibited(seats, active, inhibitors)' => is_inhibited(seats, active, inhibitors)
      BY <2>6, <3>1 DEF seat_added, object_path_sync, is_inhibited
    <3>3. inhibit' = inhibit
      BY <2>6 DEF seat_added, object_path_sync
    <3> QED
      BY <3>2, <3>3
  <2>7. ASSUME NEW s \in Seats, seat_removed(s) PROVE InhibitRespected'
    <3>1. \A r \in seats' : r \in seats /\ active'[r] = active[r]
      BY <2>7 DEF seat_removed, TypeOK
    <3>2. is_inhibited(seats, active, inhibitors)' => is_inhibited(seats, active, inhibitors)
      BY <2>7, <3>1 DEF seat_removed, is_inhibited
    <3>3. inhibit' = inhibit
      BY <2>7 DEF seat_removed
    <3> QED
      BY <3>2, <3>3
  <2>8. CASE UNCHANGED vars
    BY <2>8 DEF vars, is_inhibited
  <2> QED
    BY <2>1, <2>2, <2>3, <2>4, <2>5, <2>6, <2>7, <2>8 DEF Next
<1> QED
  BY <1>1, <1>2, TypeCorrect, PTL DEF Spec

-----------------------------------------------------------------------------
(* What ConsoleKit's seats show.  A seat is followed when the last signal that *)
(* is still to be handled, or else the session it knows of, is the one it has. *)

Followed ==
    \A s \in seats :
        IF signals[s] = <<>> THEN active[s] = session[s]
                             ELSE signals[s][Len(signals[s])] = session[s]

\* What a signal does to one seat keeps it followed, and touches no other.
LEMMA HandledFollowed ==
    ASSUME TypeOK, Followed, NEW r \in Seats, HandleSignal(r),
           session_manager = "consolekit"
    PROVE  Followed'
<1> SUFFICES ASSUME NEW s \in seats
    PROVE IF signals'[s] = <<>> THEN active'[s] = session'[s]
                                ELSE signals'[s][Len(signals'[s])] = session'[s]
  BY DEF Followed, HandleSignal, proxy_signal_cb, proxy_properties_changed
<1>1. session' = session /\ s \in Seats
  BY DEF HandleSignal, proxy_signal_cb, proxy_properties_changed, TypeOK
<1>2. active' = [active EXCEPT ![r] = Head(signals[r])]
  BY DEF HandleSignal, proxy_signal_cb, proxy_properties_changed,
         seat_active_changed
<1>3. CASE s # r
  <2>1. signals'[s] = signals[s] /\ active'[s] = active[s]
    BY <1>1, <1>2, <1>3 DEF HandleSignal, proxy_signal_cb,
           proxy_properties_changed, TypeOK
  <2> QED
    BY <1>1, <2>1 DEF Followed
<1>4. CASE s = r
  <2> DEFINE q == signals[s]
  <2>1. q \in Seq(Shown) /\ q # <<>>
    BY <1>1, <1>4 DEF HandleSignal, proxy_signal_cb, proxy_properties_changed,
           TypeOK, Shown
  <2>2. signals'[s] = Tail(q) /\ active'[s] = Head(q)
    BY <1>1, <1>2, <1>4 DEF HandleSignal, proxy_signal_cb,
           proxy_properties_changed, TypeOK
  <2>3. q[Len(q)] = session[s]
    BY <2>1 DEF Followed
  <2>4. IF Tail(q) = <<>> THEN Head(q) = q[Len(q)] ELSE Tail(q)[Len(Tail(q))] = q[Len(q)]
    BY <2>1, QueueFacts
  <2> HIDE DEF q
  <2> QED
    BY <1>1, <2>2, <2>3, <2>4
<1> QED
  BY <1>3, <1>4

\* With ConsoleKit no order of switches, signals and calls makes a key work while
\* the session that is shown has an inhibitor, once the seat's signals are handled.
\* Besides that the known sessions are respected it takes that each seat is followed.
THEOREM SessionIsFollowed == Spec => []SessionFollowed
<1> DEFINE IInv == session_manager = "consolekit" => Followed
<1>1. Init => IInv
  <2> SUFFICES ASSUME Init PROVE Followed
    OBVIOUS
  <2> QED
    BY DEF Init, Followed
<1>2. TypeOK /\ IInv /\ [Next]_vars => IInv'
  <2> SUFFICES ASSUME TypeOK, Followed, [Next]_vars, session_manager = "consolekit"
               PROVE Followed'
    BY DEF Next, vars
  <2>1. ASSUME NEW b \in Buses, Inhibit(b) \/ Leave(b) \/ bus_owner_changed(b) PROVE Followed'
    BY <2>1 DEF Inhibit, Leave, bus_owner_changed, Followed, switches
  <2>2. ASSUME Uninhibit PROVE Followed'
    BY <2>2 DEF Uninhibit, Followed, switches
  <2>3. ASSUME NEW r \in Seats, SwitchSession(r) PROVE Followed'
    <3> SUFFICES ASSUME NEW s \in seats
        PROVE IF signals'[s] = <<>> THEN active'[s] = session'[s]
                                    ELSE signals'[s][Len(signals'[s])] = session'[s]
      BY <2>3 DEF Followed, SwitchSession
    <3>1. s \in Seats /\ active' = active
      BY <2>3 DEF SwitchSession, TypeOK
    <3>2. CASE s # r
      <4>1. signals'[s] = signals[s] /\ session'[s] = session[s]
        BY <2>3, <3>1, <3>2 DEF SwitchSession, TypeOK
      <4> QED
        BY <3>1, <4>1 DEF Followed
    <3>3. CASE s = r
      <4>1. PICK n \in Shown :
                session'[s] = n /\ signals'[s] = Append(signals[s], n)
        BY <2>3, <3>1, <3>3 DEF SwitchSession, TypeOK, Shown
      <4>2. signals[s] \in Seq(Shown)
        BY <3>1 DEF TypeOK, Shown
      <4>3. signals'[s] # <<>> /\ signals'[s][Len(signals'[s])] = n
        BY <4>1, <4>2, QueueFacts
      <4> QED
        BY <4>1, <4>3
    <3> QED
      BY <3>2, <3>3
  <2>4. ASSUME NEW r \in Seats, HandleSignal(r) PROVE Followed'
    BY <2>4, HandledFollowed
  <2>5. ASSUME NEW r \in Seats, seat_added(r) \/ seat_removed(r) PROVE Followed'
    BY <2>5 DEF seat_added, object_path_sync, seat_removed, Followed, TypeOK
  <2>6. CASE UNCHANGED vars
    BY <2>6 DEF vars, switches, Followed
  <2> QED
    BY <2>1, <2>2, <2>3, <2>4, <2>5, <2>6 DEF Next
<1>3. IInv /\ InhibitRespected => SessionFollowed
  BY DEF SessionFollowed, SessionRespected, InhibitRespected, is_inhibited,
         Followed
<1> QED
  BY <1>1, <1>2, <1>3, TypeCorrect, InhibitorsRespected, PTL DEF Spec
=============================================================================
