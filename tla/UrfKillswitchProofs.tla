------------------------- MODULE UrfKillswitchProofs -------------------------
(***************************************************************************)
(* Proofs about UrfKillswitch, for any devices and tasks.                  *)
(***************************************************************************)
EXTENDS UrfKillswitch, SequenceTheorems, TLAPS

-----------------------------------------------------------------------------
(* How states combine (UrfTypes).                                          *)

\* The accumulation of a loop of urf_killswitch_state_refresh is a state of the
\* set or NO_ADAPTER, and NO_ADAPTER only when the loop saw no device.
LEMMA MostBlockedIsState ==
    ASSUME NEW S \in SUBSET {UNBLOCKED, SOFT_BLOCKED, HARD_BLOCKED}
    PROVE  /\ MostBlocked(S) \in S \cup {NO_ADAPTER}
           /\ MostBlocked(S) = NO_ADAPTER <=> S = {}
<1> DEFINE T == S \cup {NO_ADAPTER}
<1>1. \E x \in T : \A y \in T : x >= y
  <2> USE DEF NO_ADAPTER, UNBLOCKED, SOFT_BLOCKED, HARD_BLOCKED
  <2>1. CASE HARD_BLOCKED \in S
    BY <2>1
  <2>2. CASE HARD_BLOCKED \notin S /\ SOFT_BLOCKED \in S
    BY <2>2
  <2>3. CASE HARD_BLOCKED \notin S /\ SOFT_BLOCKED \notin S
    BY <2>3
  <2> QED
    BY <2>1, <2>2, <2>3
<1>2. MostBlocked(S) \in T /\ \A y \in T : MostBlocked(S) >= y
  BY <1>1 DEF MostBlocked, Max
<1>3. ASSUME NEW y \in S PROVE MostBlocked(S) # NO_ADAPTER
  BY <1>2 DEF NO_ADAPTER, UNBLOCKED, SOFT_BLOCKED, HARD_BLOCKED
<1> QED
  BY <1>2, <1>3

\* The state of a device is one of three: it is never NO_ADAPTER.
LEMMA DeviceState ==
    ASSUME NEW d, NEW s, NEW h
    PROVE  get_state(d, s, h) \in {UNBLOCKED, SOFT_BLOCKED, HARD_BLOCKED}
BY DEF get_state, event_to_state

\* What a killswitch computes is a state, and it is NO_ADAPTER exactly when it
\* has no device: aggregate_states never hides an adapter.
LEMMA KillswitchStateIsState ==
    ASSUME NEW P \in SUBSET {UNBLOCKED, SOFT_BLOCKED, HARD_BLOCKED},
           NEW O \in SUBSET {UNBLOCKED, SOFT_BLOCKED, HARD_BLOCKED}
    PROVE  /\ KillswitchStateOf(P, O) \in KillswitchState
           /\ KillswitchStateOf(P, O) = NO_ADAPTER <=> P = {} /\ O = {}
<1>1. /\ MostBlocked(P) \in P \cup {NO_ADAPTER}
      /\ MostBlocked(P) = NO_ADAPTER <=> P = {}
  BY MostBlockedIsState
<1>2. /\ MostBlocked(O) \in O \cup {NO_ADAPTER}
      /\ MostBlocked(O) = NO_ADAPTER <=> O = {}
  BY MostBlockedIsState
<1> QED
  BY <1>1, <1>2 DEF KillswitchStateOf, aggregate_states, KillswitchState,
                    NO_ADAPTER, UNBLOCKED, SOFT_BLOCKED, HARD_BLOCKED

\* The state of a list of devices, and when it is NO_ADAPTER.
LEMMA StateOfList ==
    ASSUME NEW list \in Seq(Devices), NEW s, NEW h
    PROVE  /\ StateOf(list, s, h) \in KillswitchState
           /\ StateOf(list, s, h) = NO_ADAPTER <=> list = <<>>
<1> DEFINE present == Range(list)
           P == {get_state(d, s, h) : d \in present \cap Platform}
           O == {get_state(d, s, h) : d \in present \ Platform}
<1>1. /\ P \in SUBSET {UNBLOCKED, SOFT_BLOCKED, HARD_BLOCKED}
      /\ O \in SUBSET {UNBLOCKED, SOFT_BLOCKED, HARD_BLOCKED}
  BY DeviceState
<1>2. P = {} /\ O = {} <=> present = {}
  OBVIOUS
<1>3. present = {} <=> list = <<>>
  <2>1. present = {list[i] : i \in 1..Len(list)}
    BY RangeEquality
  <2>2. list # <<>> => Len(list) \in Nat \ {0}
    BY EmptySeq
  <2>3. list = <<>> => Len(list) = 0
    BY EmptySeq
  <2> QED
    BY <2>1, <2>2, <2>3
<1>4. StateOf(list, s, h) = KillswitchStateOf(P, O)
  BY DEF StateOf
<1> HIDE DEF P, O, present
<1> QED
  BY <1>1, <1>2, <1>3, <1>4, KillswitchStateIsState

-----------------------------------------------------------------------------
(* The list of devices.                                                    *)

\* g_list_find of a device that is in the list.
LEMMA NodeThere ==
    ASSUME NEW d \in Range(devices)
    PROVE  NodeOf(d) \in DOMAIN devices /\ devices[NodeOf(d)] = d
BY DEF NodeOf, Range

\* The members of a list of devices are devices, a list element is a member.
LEMMA Members ==
    ASSUME NEW list \in Seq(Devices)
    PROVE  /\ Range(list) \subseteq Devices
           /\ Len(list) \in Nat
           /\ DOMAIN list = 1..Len(list)
           /\ \A i \in DOMAIN list : list[i] \in Range(list)
<1>1. Range(list) = {list[i] : i \in 1..Len(list)}
  BY RangeEquality
<1>2. Len(list) \in Nat /\ DOMAIN list = 1..Len(list)
  BY LenProperties
<1>3. \A i \in 1..Len(list) : list[i] \in Devices
  BY ElementOfSeq
<1> QED
  BY <1>1, <1>2, <1>3

\* g_list_remove: the other devices stay in the list.
LEMMA RemovedFromList ==
    ASSUME devices \in Seq(Devices), NEW d \in Range(devices)
    PROVE  /\ RemoveAt(devices, NodeOf(d)) \in Seq(Devices)
           /\ Range(devices) \ {d} \subseteq Range(RemoveAt(devices, NodeOf(d)))
           /\ Len(RemoveAt(devices, NodeOf(d))) = Len(devices) - 1
           /\ \A i \in 1..(Len(devices) - 1) :
                RemoveAt(devices, NodeOf(d))[i] =
                  IF i < NodeOf(d) THEN devices[i] ELSE devices[i + 1]
<1> DEFINE n == NodeOf(d)
           s1 == SubSeq(devices, 1, n - 1)
           s2 == SubSeq(devices, n + 1, Len(devices))
<1>1. /\ Len(devices) \in Nat
      /\ DOMAIN devices = 1..Len(devices)
      /\ \A i \in 1..Len(devices) : devices[i] \in Devices
  BY Members
<1>2. n \in 1..Len(devices) /\ devices[n] = d
  BY <1>1, NodeThere
<1> HIDE DEF n
<1>3. /\ s1 \in Seq(Devices)
      /\ Len(s1) = n - 1
      /\ \A i \in 1..(n - 1) : s1[i] = devices[i]
  <2>1. \A i \in 1..(n - 1) : devices[i] \in Devices
    BY <1>1, <1>2
  <2>2. /\ s1 \in Seq(Devices)
        /\ Len(s1) = IF 1 <= n - 1 THEN (n - 1) - 1 + 1 ELSE 0
        /\ \A i \in 1..((n - 1) - 1 + 1) : s1[i] = devices[1 + i - 1]
    BY <1>2, <2>1, SubSeqProperties
  <2> HIDE DEF s1
  <2>3. \A i \in 1..(n - 1) : 1 + i - 1 = i /\ i \in 1..((n - 1) - 1 + 1)
    BY <1>2
  <2> QED
    BY <1>2, <2>2, <2>3
<1>4. /\ s2 \in Seq(Devices)
      /\ Len(s2) = Len(devices) - n
      /\ \A i \in 1..(Len(devices) - n) : s2[i] = devices[n + i]
  <2>1. \A i \in (n + 1)..Len(devices) : devices[i] \in Devices
    BY <1>1, <1>2
  <2>2. /\ s2 \in Seq(Devices)
        /\ Len(s2) = IF n + 1 <= Len(devices) THEN Len(devices) - (n + 1) + 1 ELSE 0
        /\ \A i \in 1..(Len(devices) - (n + 1) + 1) : s2[i] = devices[(n + 1) + i - 1]
    BY <1>1, <1>2, <2>1, SubSeqProperties
  <2> HIDE DEF s2
  <2>3. \A i \in 1..(Len(devices) - n) :
           (n + 1) + i - 1 = n + i /\ i \in 1..(Len(devices) - (n + 1) + 1)
    BY <1>1, <1>2
  <2>4. Len(s2) = Len(devices) - n
    <3>1. Len(s2) = IF n + 1 <= Len(devices) THEN Len(devices) - (n + 1) + 1 ELSE 0
      BY <2>2
    <3> DEFINE l == Len(devices)
    <3>2. l \in Nat /\ n \in 1..l /\ Len(s2) = IF n + 1 <= l THEN l - (n + 1) + 1 ELSE 0
      BY <1>1, <1>2, <3>1
    <3> HIDE DEF l
    <3>3. Len(s2) = l - n
      BY <3>2
    <3> QED
      BY <3>3 DEF l
  <2>5. ASSUME NEW i \in 1..(Len(devices) - n) PROVE s2[i] = devices[n + i]
    BY <2>2, <2>3
  <2> QED
    BY <2>2, <2>4, <2>5
<1>5. RemoveAt(devices, n) = s1 \o s2
  BY DEF RemoveAt
<1>6. /\ s1 \o s2 \in Seq(Devices)
      /\ Range(s1 \o s2) = Range(s1) \cup Range(s2)
  BY <1>3, <1>4, ConcatProperties, RangeConcatenation
<1>7. ASSUME NEW e \in Range(devices), e # d PROVE e \in Range(s1) \cup Range(s2)
  <2>1. PICK i \in 1..Len(devices) : devices[i] = e
    BY <1>1, <1>7 DEF Range
  <2>2. CASE i <= n - 1
    <3>1. i \in 1..(n - 1) /\ s1[i] = e
      BY <1>2, <1>3, <2>1, <2>2
    <3>2. DOMAIN s1 = 1..(n - 1)
      BY <1>3, LenProperties
    <3> QED
      BY <3>1, <3>2 DEF Range
  <2>3. CASE i >= n + 1
    <3>1. i - n \in 1..(Len(devices) - n) /\ n + (i - n) = i
      BY <1>1, <1>2, <2>1, <2>3
    <3>2. s2[i - n] = e
      BY <1>4, <2>1, <3>1
    <3>3. DOMAIN s2 = 1..(Len(devices) - n)
      BY <1>4, LenProperties
    <3> QED
      BY <3>1, <3>2, <3>3 DEF Range
  <2> QED
    BY <1>1, <1>2, <1>7, <2>1, <2>2, <2>3
<1>8. /\ Len(s1 \o s2) = Len(s1) + Len(s2)
      /\ \A i \in 1..(Len(s1) + Len(s2)) :
           (s1 \o s2)[i] = IF i <= Len(s1) THEN s1[i] ELSE s2[i - Len(s1)]
  BY <1>3, <1>4, ConcatProperties
<1> HIDE DEF s1, s2
<1>9. Len(s1 \o s2) = Len(devices) - 1
  BY <1>1, <1>2, <1>3, <1>4, <1>8
<1>10. ASSUME NEW i \in 1..(Len(devices) - 1)
       PROVE  (s1 \o s2)[i] = IF i < n THEN devices[i] ELSE devices[i + 1]
  <2>1. (s1 \o s2)[i] = IF i <= n - 1 THEN s1[i] ELSE s2[i - (n - 1)]
    BY <1>1, <1>2, <1>3, <1>4, <1>8
  <2>2. CASE i < n
    BY <1>2, <1>3, <2>1, <2>2
  <2>3. CASE ~ (i < n)
    <3>1. i - (n - 1) \in 1..(Len(devices) - n) /\ n + (i - (n - 1)) = i + 1
      BY <1>1, <1>2, <2>3
    <3>2. s2[i - (n - 1)] = devices[i + 1]
      BY <1>4, <3>1
    <3> QED
      BY <1>2, <2>1, <2>3, <3>2
  <2> QED
    BY <2>2, <2>3
<1> QED
  BY <1>5, <1>6, <1>7, <1>9, <1>10 DEF n

\* g_list_prepend: the new device joins the list.
LEMMA AddedToList ==
    ASSUME NEW list \in Seq(Devices), NEW d \in Devices
    PROVE  /\ <<d>> \o list \in Seq(Devices)
           /\ Range(list) \subseteq Range(<<d>> \o list)
           /\ Len(<<d>> \o list) = Len(list) + 1
           /\ (<<d>> \o list)[1] = d
           /\ \A i \in 2..(Len(list) + 1) : (<<d>> \o list)[i] = list[i - 1]
<1>1. <<d>> \in Seq(Devices) /\ Len(<<d>>) = 1 /\ <<d>>[1] = d /\ Len(list) \in Nat
  BY LenProperties
<1>2. /\ <<d>> \o list \in Seq(Devices)
      /\ Len(<<d>> \o list) = 1 + Len(list)
      /\ \A i \in 1..(1 + Len(list)) :
           (<<d>> \o list)[i] = IF i <= 1 THEN <<d>>[i] ELSE list[i - 1]
  BY <1>1, ConcatProperties
<1>3. Range(<<d>> \o list) = Range(<<d>>) \cup Range(list)
  BY <1>1, RangeConcatenation
<1> QED
  BY <1>1, <1>2, <1>3

-----------------------------------------------------------------------------
(* The published state.                                                    *)

\* The state depends on the devices in the list and on no other.
LEMMA StateOfOthers ==
    ASSUME NEW list, NEW s, NEW h, NEW s2, NEW h2,
           \A d \in Range(list) : s2[d] = s[d] /\ h2[d] = h[d]
    PROVE  StateOf(list, s2, h2) = StateOf(list, s, h)
<1>1. \A d \in Range(list) : get_state(d, s2, h2) = get_state(d, s, h)
  BY DEF get_state
<1>2. /\ {get_state(d, s2, h2) : d \in Range(list) \cap Platform}
           = {get_state(d, s, h) : d \in Range(list) \cap Platform}
      /\ {get_state(d, s2, h2) : d \in Range(list) \ Platform}
           = {get_state(d, s, h) : d \in Range(list) \ Platform}
  BY <1>1
<1> QED
  BY <1>2 DEF StateOf

ListIsList == devices \in Seq(Devices)
SInv == ListIsList /\ StateCurrent /\ AnnouncedCurrent

\* A handler that ends in urf_killswitch_state_refresh publishes the state: the
\* first adapter always changes it, for without one it is NO_ADAPTER.
LEMMA RefreshPublishes ==
    ASSUME SInv, devices' \in Seq(Devices), state_refresh
    PROVE  SInv'
<1>1. state = NO_ADAPTER <=> devices = <<>>
  BY StateOfList DEF SInv, ListIsList, StateCurrent
<1>2. state' = StateOf(devices', soft', hard')
  BY DEF state_refresh
<1>3. state' = NO_ADAPTER <=> devices' = <<>>
  BY <1>2, StateOfList
<1> QED
  BY <1>1, <1>2, <1>3 DEF SInv, ListIsList, StateCurrent, AnnouncedCurrent, state_refresh

\* A handler that leaves the devices alone leaves the published state.
LEMMA SameStaysPublished ==
    ASSUME SInv, UNCHANGED <<devices, beliefs, views>>
    PROVE  SInv'
BY DEF SInv, ListIsList, StateCurrent, AnnouncedCurrent, beliefs, views

LEMMA SInvStep ==
    ASSUME SInv, [Next]_vars
    PROVE  SInv'
<1> USE DEF vars
<1>1. CASE SetBlock
  BY <1>1, SameStaysPublished DEF SetBlock
<1>2. CASE SetBlockNull
  BY <1>2, SameStaysPublished DEF SetBlockNull
<1>3. ASSUME NEW t, NEW ok, NEW dfr, NEW onl, soft_block_cb(t, ok, dfr, onl) PROVE SInv'
  BY <1>3, SameStaysPublished DEF soft_block_cb
<1>4. CASE Dispatch
  BY <1>3, <1>4, SameStaysPublished DEF Dispatch
<1>5. CASE \E o \in Ofono : OnlineReply(o)
  BY <1>3, <1>5, SameStaysPublished DEF OnlineReply
<1>6. CASE OrphanReply
  BY <1>3, <1>6 DEF OrphanReply
<1>7. CASE \E o \in Ofono : SetModem(o)
  BY <1>7, SameStaysPublished DEF SetModem
<1>8. CASE \E k \in Kernel : KernelChange(k)
  BY <1>8, RefreshPublishes DEF KernelChange, SInv, ListIsList
<1>9. ASSUME NEW o \in Ofono, ModemChange(o) PROVE SInv'
  <2>1. CASE o \in Range(devices)
    BY <1>9, <2>1, RefreshPublishes DEF ModemChange, SInv, ListIsList
  <2>2. CASE o \notin Range(devices)
    <3>1. /\ soft' = [soft EXCEPT ![o] = ~ soft[o]]
          /\ hard' = hard /\ devices' = devices /\ UNCHANGED views
      BY <1>9, <2>2 DEF ModemChange
    <3>2. \A d \in Range(devices) : soft'[d] = soft[d] /\ hard'[d] = hard[d]
      BY <2>2, <3>1
    <3>3. StateOf(devices, soft', hard') = StateOf(devices, soft, hard)
      BY <3>2, StateOfOthers
    <3> QED
      BY <3>1, <3>3 DEF SInv, ListIsList, StateCurrent, AnnouncedCurrent, views
  <2> QED
    BY <2>1, <2>2
<1>10. ASSUME NEW d \in Devices, AddDevice(d) PROVE SInv'
  BY <1>10, AddedToList, RefreshPublishes DEF AddDevice, SInv, ListIsList
<1>11. ASSUME NEW d \in Devices, RemoveDevice(d) PROVE SInv'
  BY <1>11, RemovedFromList, RefreshPublishes DEF RemoveDevice, del_device, SInv, ListIsList
<1>12. ASSUME NEW o \in Ofono, RemoveModem(o) PROVE SInv'
  BY <1>12, RemovedFromList, RefreshPublishes DEF RemoveModem, del_device, SInv, ListIsList
<1>13. CASE Restart
  <2>1. devices' = <<>> /\ state' = NO_ADAPTER /\ <<>> \in Seq(Devices)
    BY <1>13, EmptySeq DEF Restart
  <2>2. StateOf(<<>>, soft', hard') = NO_ADAPTER
    BY <2>1, StateOfList
  <2> QED
    BY <2>1, <2>2 DEF SInv, ListIsList, StateCurrent, AnnouncedCurrent
<1>14. CASE UNCHANGED vars
  BY <1>14, SameStaysPublished
<1> QED
  BY <1>1, <1>2, <1>4, <1>5, <1>6, <1>7, <1>8, <1>9, <1>10, <1>11, <1>12, <1>13, <1>14
     DEF Next

LEMMA SInvAlways == Spec => []SInv
<1>1. Init => SInv
  <2> SUFFICES ASSUME Init PROVE SInv
    OBVIOUS
  <2>1. devices = <<>> /\ state = NO_ADAPTER /\ <<>> \in Seq(Devices)
    BY EmptySeq DEF Init
  <2>2. StateOf(<<>>, soft, hard) = NO_ADAPTER
    BY <2>1, StateOfList
  <2> QED
    BY <2>1, <2>2 DEF SInv, ListIsList, StateCurrent, AnnouncedCurrent
<1>2. SInv /\ [Next]_vars => SInv'
  BY SInvStep
<1> QED
  BY <1>1, <1>2, PTL DEF Spec

\* What a key press, Block or flight mode reads as the state of a killswitch is
\* the state of its devices, for any devices and any order of reports.
THEOREM StateIsCurrent == Spec => []StateCurrent
BY SInvAlways, PTL DEF SInv

\* A client that follows PropertiesChanged has the state of any killswitch that
\* has an adapter.
THEOREM AnnouncementIsCurrent == Spec => []AnnouncedCurrent
BY SInvAlways, PTL DEF SInv

-----------------------------------------------------------------------------
(* The main loop's queue of returned tasks.                                *)

Entry == [task : TaskIds \cup {CALLER}, ok : BOOLEAN]

Queued(q, t) == \E i \in DOMAIN q : q[i].task = t
NoneTwice(q) == \A i, j \in DOMAIN q : q[i].task = q[j].task => i = j

\* A task that is returned joins those that are queued.
LEMMA AppendQueued ==
    ASSUME NEW q \in Seq(Entry), NEW t \in TaskIds \cup {CALLER}, NEW ok \in BOOLEAN
    PROVE  LET r == Append(q, Done(t, ok)) IN
           /\ r \in Seq(Entry)
           /\ \A u : Queued(r, u) <=> Queued(q, u) \/ u = t
           /\ NoneTwice(q) /\ ~ Queued(q, t) => NoneTwice(r)
<1> DEFINE e == Done(t, ok)
           r == Append(q, e)
<1>1. e \in Entry /\ e.task = t
  BY DEF Entry, Done
<1>2. /\ r \in Seq(Entry)
      /\ Len(q) \in Nat /\ DOMAIN q = 1..Len(q)
      /\ DOMAIN r = 1..(Len(q) + 1)
      /\ \A i \in 1..Len(q) : r[i] = q[i]
      /\ r[Len(q) + 1] = e
  BY <1>1, AppendProperties, LenProperties
<1> HIDE DEF r, e
<1>3. ASSUME NEW u PROVE Queued(r, u) <=> Queued(q, u) \/ u = t
  BY <1>1, <1>2 DEF Queued
<1>4. NoneTwice(q) /\ ~ Queued(q, t) => NoneTwice(r)
  BY <1>1, <1>2 DEF Queued, NoneTwice
<1> QED
  BY <1>2, <1>3, <1>4 DEF r, e

\* The task that is dispatched leaves the queue, the others stay.
LEMMA TailQueued ==
    ASSUME NEW q \in Seq(Entry), q # <<>>
    PROVE  /\ Head(q) \in Entry
           /\ Tail(q) \in Seq(Entry)
           /\ \A u : Queued(q, u) <=> u = Head(q).task \/ Queued(Tail(q), u)
           /\ NoneTwice(q) => NoneTwice(Tail(q)) /\ ~ Queued(Tail(q), Head(q).task)
<1> DEFINE r == Tail(q)
<1>1. /\ Len(q) \in Nat \ {0} /\ DOMAIN q = 1..Len(q)
      /\ r \in Seq(Entry)
      /\ Head(q) = q[1] /\ Head(q) \in Entry
      /\ DOMAIN r = 1..(Len(q) - 1)
      /\ \A i \in 1..(Len(q) - 1) : r[i] = q[i + 1]
  BY HeadTailProperties, LenProperties, EmptySeq
<1> HIDE DEF r
<1>2. ASSUME NEW i \in DOMAIN q, i # 1 PROVE i - 1 \in DOMAIN r /\ r[i - 1] = q[i]
  <2>1. i - 1 \in 1..(Len(q) - 1) /\ (i - 1) + 1 = i
    BY <1>1, <1>2
  <2>2. r[i - 1] = q[(i - 1) + 1]
    BY <1>1, <2>1
  <2> QED
    BY <1>1, <2>1, <2>2
<1>3. ASSUME NEW i \in DOMAIN r PROVE i + 1 \in DOMAIN q /\ r[i] = q[i + 1] /\ i + 1 # 1
  BY <1>1
<1>4. ASSUME NEW u PROVE Queued(q, u) <=> u = Head(q).task \/ Queued(r, u)
  <2>1. Queued(r, u) => Queued(q, u)
    BY <1>3 DEF Queued
  <2>2. u = Head(q).task => Queued(q, u)
    BY <1>1 DEF Queued
  <2>3. Queued(q, u) => u = Head(q).task \/ Queued(r, u)
    BY <1>1, <1>2 DEF Queued
  <2> QED
    BY <2>1, <2>2, <2>3
<1>5. ASSUME NoneTwice(q) PROVE NoneTwice(r) /\ ~ Queued(r, Head(q).task)
  <2>1. NoneTwice(r)
    <3> SUFFICES ASSUME NEW i \in DOMAIN r, NEW j \in DOMAIN r, r[i].task = r[j].task
                 PROVE  i = j
      BY DEF NoneTwice
    <3>1. i + 1 = j + 1
      BY <1>3, <1>5 DEF NoneTwice
    <3> QED
      BY <1>1, <3>1
  <2>2. ~ Queued(r, Head(q).task)
    BY <1>1, <1>3, <1>5 DEF Queued, NoneTwice
  <2> QED
    BY <2>1, <2>2
<1> QED
  BY <1>1, <1>4, <1>5 DEF r

-----------------------------------------------------------------------------
(* The inductive invariant.                                                *)

\* A task that is to come is outstanding and comes from one place: the queue, or
\* the modem it was given to.
Outstanding(nd, q, onl) ==
    /\ NoneTwice(q)
    /\ \A t \in TaskIds : Queued(q, t) => nd[t] # NULL
    /\ \A o \in Ofono : onl[o] \in TaskIds =>
         nd[onl[o]] \in {o, FREED} /\ ~ Queued(q, onl[o])

\* An outstanding task points to a node of the list or to a freed one.
NodesListed ==
    \A t \in TaskIds : node[t] \in Devices => node[t] \in Range(devices)

\* A modem that is gone leaves a task whose node is freed.
OrphansFreed == \A t \in orphans : node[t] = FREED

\* The deferred answer of an empty killswitch is for the caller that waits.
EmptyAnswer == Queued(deferred, CALLER) => caller = "waiting" /\ ~ set_block_task

IInv ==
    /\ TypeOK
    /\ Outstanding(node, deferred, online)
    /\ NodesListed
    /\ OrphansFreed
    /\ EmptyAnswer
    /\ CallerOwned
    /\ WalkDriven

-----------------------------------------------------------------------------
(* A task is given to a device, and a task ends.                           *)

\* urf_device_set_software_blocked with a fresh task: the task is returned at
\* once or pending at the modem, and nothing else joins the queue.
LEMMA Start ==
    ASSUME NEW nd \in [TaskIds -> Devices \cup {NULL, FREED}],
           NEW q \in Seq(Entry),
           NEW onl \in [Ofono -> TaskIds \cup {IDLE, PLAIN}],
           Outstanding(nd, q, onl),
           NEW d \in Devices, NEW u \in TaskIds, nd[u] = NULL,
           set_soft(d, u, q, onl)
    PROVE  /\ Outstanding([nd EXCEPT ![u] = d], deferred', online')
           /\ deferred' \in Seq(Entry)
           /\ online' \in [Ofono -> TaskIds \cup {IDLE, PLAIN}]
           /\ Queued(deferred', u) \/ \E o \in Ofono : online'[o] = u
           /\ Queued(deferred', CALLER) <=> Queued(q, CALLER)
<1> DEFINE nn == [nd EXCEPT ![u] = d]
<1> USE KillswitchAssumption DEF KillswitchAssumption
<1>1. ~ Queued(q, u) /\ \A o \in Ofono : onl[o] # u
  BY DEF Outstanding, NULL, FREED, Devices
<1>2. nn[u] = d /\ \A t \in TaskIds : t # u => nn[t] = nd[t]
  OBVIOUS
<1>3. u # CALLER /\ d # NULL /\ d # FREED
  BY DEF Devices
<1> HIDE DEF nn
<1>4. ASSUME NEW ok \in BOOLEAN, deferred' = Append(q, Done(u, ok)), online' = onl
      PROVE  /\ Outstanding(nn, deferred', online')
             /\ deferred' \in Seq(Entry)
             /\ Queued(deferred', u)
             /\ Queued(deferred', CALLER) <=> Queued(q, CALLER)
  <2>1. /\ deferred' \in Seq(Entry)
        /\ \A t : Queued(deferred', t) <=> Queued(q, t) \/ t = u
        /\ NoneTwice(q) /\ ~ Queued(q, u) => NoneTwice(deferred')
    BY <1>4, AppendQueued
  <2> QED
    BY <1>1, <1>2, <1>3, <1>4, <2>1 DEF Outstanding, NULL
<1>5. ASSUME d \in Ofono, onl[d] = IDLE, online' = [onl EXCEPT ![d] = u], deferred' = q
      PROVE  /\ Outstanding(nn, deferred', online')
             /\ online' \in [Ofono -> TaskIds \cup {IDLE, PLAIN}]
             /\ online'[d] = u
  <2>1. online'[d] = u /\ \A o \in Ofono : o # d => online'[o] = onl[o]
    BY <1>5
  <2> QED
    BY <1>1, <1>2, <1>3, <1>5, <2>1 DEF Outstanding, NULL
<1> QED
  BY <1>4, <1>5 DEF set_soft, nn

\* g_object_unref of a task that came from the queue or from its modem.
LEMMA End ==
    ASSUME NEW nd \in [TaskIds -> Devices \cup {NULL, FREED}],
           NEW q, NEW onl,
           Outstanding(nd, q, onl),
           NEW t \in TaskIds, ~ Queued(q, t), \A o \in Ofono : onl[o] # t
    PROVE  /\ Outstanding([nd EXCEPT ![t] = NULL], q, onl)
           /\ [nd EXCEPT ![t] = NULL] \in [TaskIds -> Devices \cup {NULL, FREED}]
BY DEF Outstanding

-----------------------------------------------------------------------------
(* One step of the walk preserves the invariant.                           *)

\* The abort changes nothing else.
LEMMA FaultStep ==
    ASSUME IInv, UNCHANGED <<devices, beliefs, views, walkVars, ioVars>>,
           fault' \in {"none", "node_freed", "task_mismatch"}
    PROVE  IInv'
BY DEF IInv, TypeOK, Outstanding, NodesListed, OrphansFreed, EmptyAnswer, CallerOwned,
       WalkDriven, NoneTwice, Queued, beliefs, views, walkVars, ioVars

\* A call starts a walk with a fresh task, or finds no device.
LEMMA CallStep ==
    ASSUME IInv, NEW withTask \in BOOLEAN,
           withTask => caller \in {"idle", "ok", "error"},
           set_software_blocked(withTask),
           UNCHANGED <<devices, beliefs, views, orphans, fault>>
    PROVE  IInv'
<1> USE KillswitchAssumption DEF KillswitchAssumption
<1>1. /\ TypeOK /\ deferred \in Seq(Entry)
      /\ Range(devices) \subseteq Devices
  BY Members DEF IInv, TypeOK, Entry
<1>2. UNCHANGED <<devices, soft, hard, state, announced, orphans, fault>>
  BY DEF beliefs, views
<1>3. withTask => ~ set_block_task /\ ~ Queued(deferred, CALLER)
  BY DEF IInv, CallerOwned, EmptyAnswer
<1>4. ASSUME devices # <<>>, NEW t \in Free(node),
             pending_device_task' = t,
             node' = [node EXCEPT ![t] = Head(devices)],
             set_soft(Head(devices), t, deferred, online),
             set_block_task' = withTask,
             caller' = IF withTask THEN "waiting"
                       ELSE IF set_block_task THEN "lost" ELSE caller,
             walked' = Range(devices), agreed' = {}
      PROVE  IInv'
  <2>1. t \in TaskIds /\ node[t] = NULL
    BY <1>4 DEF Free
  <2>2. Head(devices) \in Range(devices)
    <3>1. Len(devices) \in Nat \ {0} /\ Head(devices) = devices[1]
      BY <1>1, <1>4, EmptySeq, HeadTailProperties, LenProperties DEF TypeOK
    <3> QED
      BY <1>1, <3>1, Members DEF TypeOK
  <2>3. /\ Outstanding(node', deferred', online')
        /\ deferred' \in Seq(Entry)
        /\ online' \in [Ofono -> TaskIds \cup {IDLE, PLAIN}]
        /\ Queued(deferred', t) \/ \E o \in Ofono : online'[o] = t
        /\ Queued(deferred', CALLER) <=> Queued(deferred, CALLER)
    <3>1. /\ node \in [TaskIds -> Devices \cup {NULL, FREED}]
          /\ online \in [Ofono -> TaskIds \cup {IDLE, PLAIN}]
          /\ Outstanding(node, deferred, online)
          /\ Head(devices) \in Devices
      BY <1>1, <2>2 DEF IInv, TypeOK
    <3>2. /\ Outstanding([node EXCEPT ![t] = Head(devices)], deferred', online')
          /\ deferred' \in Seq(Entry)
          /\ online' \in [Ofono -> TaskIds \cup {IDLE, PLAIN}]
          /\ Queued(deferred', t) \/ \E o \in Ofono : online'[o] = t
          /\ Queued(deferred', CALLER) <=> Queued(deferred, CALLER)
      BY <1>1, <1>4, <2>1, <3>1, Start
    <3> QED
      BY <1>4, <3>2
  <2>4. TypeOK'
    BY <1>1, <1>2, <1>4, <2>1, <2>2, <2>3 DEF TypeOK, Entry
  <2>5. NodesListed' /\ OrphansFreed'
    <3>1. \A u \in TaskIds : node'[u] = IF u = t THEN Head(devices) ELSE node[u]
      BY <1>1, <1>4, <2>1 DEF TypeOK
    <3>2. NodesListed'
      BY <1>2, <2>2, <3>1 DEF IInv, NodesListed
    <3>3. \A u \in orphans : u \in TaskIds /\ u # t
      BY <1>1, <2>1 DEF IInv, TypeOK, OrphansFreed, NULL, FREED
    <3>4. OrphansFreed'
      BY <1>2, <3>1, <3>3 DEF IInv, OrphansFreed
    <3> QED
      BY <3>2, <3>4
  <2>6. EmptyAnswer'
    BY <1>3, <1>4, <2>3 DEF IInv, EmptyAnswer
  <2>7. CallerOwned'
    BY <1>3, <1>4, <2>3 DEF IInv, CallerOwned, Queued
  <2>8. WalkDriven'
    BY <1>4, <2>1, <2>3 DEF WalkDriven, Queued
  <2> QED
    BY <2>3, <2>4, <2>5, <2>6, <2>7, <2>8 DEF IInv, Outstanding
<1>5. ASSUME withTask, deferred' = Append(deferred, Done(CALLER, TRUE)),
             caller' = "waiting",
             UNCHANGED <<set_block_task, pending_device_task, node, online, walked, agreed>>
      PROVE  IInv'
  <2>1. /\ deferred' \in Seq(Entry)
        /\ \A u : Queued(deferred', u) <=> Queued(deferred, u) \/ u = CALLER
        /\ NoneTwice(deferred) /\ ~ Queued(deferred, CALLER) => NoneTwice(deferred')
    BY <1>1, <1>5, AppendQueued
  <2>2. TypeOK'
    BY <1>1, <1>2, <1>5, <2>1 DEF TypeOK, Entry
  <2>3. Outstanding(node', deferred', online')
    BY <1>3, <1>5, <2>1 DEF IInv, Outstanding
  <2>4. NodesListed' /\ OrphansFreed' /\ EmptyAnswer'
    BY <1>2, <1>3, <1>5, <2>1 DEF IInv, NodesListed, OrphansFreed, EmptyAnswer
  <2>5. CallerOwned' /\ WalkDriven'
    BY <1>3, <1>5, <2>1 DEF IInv, CallerOwned, WalkDriven, Queued
  <2> QED
    BY <2>2, <2>3, <2>4, <2>5 DEF IInv, Outstanding
<1>6. ASSUME ~ withTask, UNCHANGED <<deferred, caller>>,
             UNCHANGED <<set_block_task, pending_device_task, node, online, walked, agreed>>
      PROVE  IInv'
  BY <1>2, <1>6, FaultStep DEF IInv, TypeOK, walkVars, ioVars, beliefs, views
<1> QED
  BY <1>4, <1>5, <1>6 DEF set_software_blocked

\* The callback of a task that came from the queue or from a modem in use.
LEMMA CallbackStep ==
    ASSUME IInv, NEW t \in TaskIds, NEW ok \in BOOLEAN,
           NEW dfr \in Seq(Entry), NEW onl \in [Ofono -> TaskIds \cup {IDLE, PLAIN}],
           Outstanding(node, dfr, onl), node[t] # NULL,
           ~ Queued(dfr, t), \A o \in Ofono : onl[o] # t,
           Queued(dfr, CALLER) <=> Queued(deferred, CALLER),
           soft_block_cb(t, ok, dfr, onl)
    PROVE  IInv'
<1> USE KillswitchAssumption DEF KillswitchAssumption
<1>1. CASE node[t] = FREED \/ t # pending_device_task
  BY <1>1, FaultStep DEF soft_block_cb
<1>2. CASE ~ (node[t] = FREED \/ t # pending_device_task)
  <2> DEFINE here == NodeOf(node[t])
             left == [node EXCEPT ![t] = NULL]
  <2>1. /\ TypeOK /\ node[t] \in Range(devices) /\ node[t] \in Devices
        /\ Len(devices) \in Nat /\ here \in 1..Len(devices)
        /\ \A i \in 1..Len(devices) : devices[i] \in Range(devices)
        /\ Range(devices) \subseteq Devices
    BY <1>2, NodeThere, Members DEF IInv, TypeOK, NodesListed
  <2>2. Outstanding(left, dfr, onl) /\ left \in [TaskIds -> Devices \cup {NULL, FREED}]
    BY <2>1, End DEF TypeOK
  <2>3. \A u \in TaskIds : left[u] = IF u = t THEN NULL ELSE node[u]
    BY <2>1 DEF TypeOK
  <2>4. /\ UNCHANGED <<devices, soft, hard, state, announced, orphans, fault>>
        /\ \/ /\ here < Len(devices)
              /\ \E u \in Free(left) :
                   /\ pending_device_task' = u
                   /\ node' = [left EXCEPT ![u] = devices[here + 1]]
                   /\ set_soft(devices[here + 1], u, dfr, onl)
              /\ agreed' = agreed \cup {node[t]}
              /\ UNCHANGED <<set_block_task, caller, walked>>
           \/ Answer(ok) /\ node' = left /\ deferred' = dfr /\ online' = onl
    BY <1>2 DEF soft_block_cb, beliefs, views
  <2>5. \A u \in orphans : u # t
    BY <1>2 DEF IInv, OrphansFreed
  <2> HIDE DEF here, left
  <2>6. ASSUME here < Len(devices), NEW u \in Free(left),
               pending_device_task' = u,
               node' = [left EXCEPT ![u] = devices[here + 1]],
               set_soft(devices[here + 1], u, dfr, onl),
               agreed' = agreed \cup {node[t]},
               UNCHANGED <<set_block_task, caller, walked>>
        PROVE  IInv'
    <3>1. u \in TaskIds /\ left[u] = NULL
      BY <2>6 DEF Free
    <3>2. devices[here + 1] \in Range(devices)
      BY <2>1, <2>6
    <3>3. /\ Outstanding(node', deferred', online')
          /\ deferred' \in Seq(Entry)
          /\ online' \in [Ofono -> TaskIds \cup {IDLE, PLAIN}]
          /\ Queued(deferred', u) \/ \E o \in Ofono : online'[o] = u
          /\ Queued(deferred', CALLER) <=> Queued(dfr, CALLER)
      <4>1. /\ Outstanding([left EXCEPT ![u] = devices[here + 1]], deferred', online')
            /\ deferred' \in Seq(Entry)
            /\ online' \in [Ofono -> TaskIds \cup {IDLE, PLAIN}]
            /\ Queued(deferred', u) \/ \E o \in Ofono : online'[o] = u
            /\ Queued(deferred', CALLER) <=> Queued(dfr, CALLER)
        <5>1. devices[here + 1] \in Devices
          BY <2>1, <3>2
        <5> QED
          BY <2>2, <2>6, <3>1, <5>1, Start
      <4> QED
        BY <2>6, <4>1
    <3>4. TypeOK'
      BY <2>1, <2>2, <2>4, <2>6, <3>1, <3>2, <3>3 DEF TypeOK, Entry
    <3>5. NodesListed'
      BY <2>1, <2>2, <2>3, <2>4, <2>6, <3>1, <3>2 DEF IInv, NodesListed, NULL, Devices
    <3>6. OrphansFreed'
      BY <2>1, <2>2, <2>3, <2>4, <2>5, <2>6, <3>1
         DEF IInv, TypeOK, OrphansFreed, NULL, FREED
    <3>7. EmptyAnswer' /\ CallerOwned'
      BY <2>6, <3>3 DEF IInv, EmptyAnswer, CallerOwned, Queued
    <3>8. WalkDriven'
      BY <2>6, <3>1, <3>3 DEF WalkDriven, Queued
    <3> QED
      BY <3>3, <3>4, <3>5, <3>6, <3>7, <3>8 DEF IInv, Outstanding
  <2>7. ASSUME Answer(ok), node' = left, deferred' = dfr, online' = onl
        PROVE  IInv'
    <3>1. node[pending_device_task] = node[t]
      BY <1>2
    <3>2. TypeOK'
      BY <2>1, <2>2, <2>4, <2>7, <3>1 DEF TypeOK, Answer, Entry
    <3>3. NodesListed' /\ OrphansFreed'
      BY <2>1, <2>3, <2>4, <2>5, <2>7
         DEF IInv, TypeOK, NodesListed, OrphansFreed, NULL, Devices
    <3>4. EmptyAnswer' /\ CallerOwned' /\ WalkDriven'
      BY <2>7 DEF IInv, EmptyAnswer, CallerOwned, WalkDriven, Answer, Queued
    <3> QED
      BY <2>2, <2>7, <3>2, <3>3, <3>4 DEF IInv
  <2> QED
    BY <2>4, <2>6, <2>7
<1> QED
  BY <1>1, <1>2

-----------------------------------------------------------------------------
(* Every step preserves the invariant.                                     *)

\* The published states are states of a killswitch.
LEMMA RefreshTypes ==
    ASSUME TypeOK, devices' \in Seq(Devices), state_refresh
    PROVE  state' \in KillswitchState /\ announced' \in KillswitchState
<1>1. state' \in KillswitchState
  BY StateOfList DEF state_refresh
<1> QED
  BY <1>1 DEF state_refresh, TypeOK

LEMMA DispatchStep ==
    ASSUME IInv, Dispatch
    PROVE  IInv'
<1> USE KillswitchAssumption DEF KillswitchAssumption
<1> DEFINE e == Head(deferred)
           r == Tail(deferred)
<1>1. TypeOK /\ deferred \in Seq(Entry) /\ deferred # <<>>
  BY DEF IInv, TypeOK, Entry, Dispatch
<1>2. /\ e \in Entry /\ r \in Seq(Entry)
      /\ \A u : Queued(deferred, u) <=> u = e.task \/ Queued(r, u)
      /\ NoneTwice(r) /\ ~ Queued(r, e.task)
  BY <1>1, TailQueued DEF IInv, Outstanding
<1>3. Outstanding(node, r, online)
  BY <1>2 DEF IInv, Outstanding
<1>4. \/ /\ e.task = CALLER
         /\ caller' = "ok"
         /\ deferred' = r
         /\ UNCHANGED <<devices, beliefs, views, fault, online, orphans,
                        set_block_task, pending_device_task, node, walked, agreed>>
      \/ e.task # CALLER /\ soft_block_cb(e.task, e.ok, r, online)
  BY DEF Dispatch
<1> HIDE DEF e, r
<1>5. ASSUME e.task = CALLER, caller' = "ok", deferred' = r,
             UNCHANGED <<devices, beliefs, views, fault, online, orphans,
                         set_block_task, pending_device_task, node, walked, agreed>>
      PROVE  IInv'
  <2>1. ~ set_block_task
    BY <1>2, <1>5 DEF IInv, EmptyAnswer
  <2>2. TypeOK'
    BY <1>1, <1>2, <1>5 DEF TypeOK, Entry, beliefs, views
  <2>3. Outstanding(node', deferred', online')
    BY <1>3, <1>5
  <2>4. NodesListed' /\ OrphansFreed'
    BY <1>5 DEF IInv, NodesListed, OrphansFreed
  <2>5. EmptyAnswer' /\ CallerOwned' /\ WalkDriven'
    BY <1>2, <1>5, <2>1 DEF EmptyAnswer, CallerOwned, WalkDriven
  <2> QED
    BY <2>2, <2>3, <2>4, <2>5 DEF IInv
<1>6. ASSUME e.task # CALLER, soft_block_cb(e.task, e.ok, r, online) PROVE IInv'
  <2>1. e.task \in TaskIds /\ e.ok \in BOOLEAN
    BY <1>2, <1>6 DEF Entry
  <2>2. node[e.task] # NULL /\ \A o \in Ofono : online[o] # e.task
    BY <1>2, <2>1 DEF IInv, Outstanding
  <2>3. Queued(r, CALLER) <=> Queued(deferred, CALLER)
    BY <1>2, <1>6
  <2>4. online \in [Ofono -> TaskIds \cup {IDLE, PLAIN}]
    BY <1>1 DEF TypeOK
  <2> QED
    BY <1>2, <1>3, <1>6, <2>1, <2>2, <2>3, <2>4, CallbackStep
<1> QED
  BY <1>4, <1>5, <1>6

LEMMA OnlineReplyStep ==
    ASSUME IInv, NEW o \in Ofono, OnlineReply(o)
    PROVE  IInv'
<1> USE KillswitchAssumption DEF KillswitchAssumption
<1> DEFINE idle == [online EXCEPT ![o] = IDLE]
<1>1. /\ TypeOK /\ deferred \in Seq(Entry)
      /\ idle \in [Ofono -> TaskIds \cup {IDLE, PLAIN}]
      /\ \A p \in Ofono : idle[p] = IF p = o THEN IDLE ELSE online[p]
  BY DEF IInv, TypeOK, Entry
<1>2. Outstanding(node, deferred, idle)
  BY <1>1 DEF IInv, Outstanding
<1>3. \/ /\ online[o] = PLAIN
         /\ online' = idle
         /\ UNCHANGED <<devices, beliefs, views, walkVars, deferred, orphans, fault>>
      \/ /\ online[o] \in TaskIds
         /\ \E ok \in BOOLEAN : soft_block_cb(online[o], ok, deferred, idle)
  BY <1>1 DEF OnlineReply, TypeOK
<1> HIDE DEF idle
<1>4. CASE /\ online[o] = PLAIN
           /\ online' = idle
           /\ UNCHANGED <<devices, beliefs, views, walkVars, deferred, orphans, fault>>
  <2>1. TypeOK' /\ Outstanding(node', deferred', online')
    BY <1>1, <1>2, <1>4 DEF TypeOK, beliefs, views, walkVars
  <2>2. NodesListed' /\ OrphansFreed' /\ EmptyAnswer' /\ CallerOwned'
    BY <1>4 DEF IInv, NodesListed, OrphansFreed, EmptyAnswer, CallerOwned, Queued, walkVars
  <2>3. WalkDriven'
    BY <1>1, <1>4 DEF IInv, WalkDriven, walkVars
  <2> QED
    BY <2>1, <2>2, <2>3 DEF IInv
<1>5. ASSUME online[o] \in TaskIds,
             NEW ok \in BOOLEAN, soft_block_cb(online[o], ok, deferred, idle)
      PROVE  IInv'
  <2>1. node[online[o]] \in {o, FREED} /\ ~ Queued(deferred, online[o])
    BY <1>5 DEF IInv, Outstanding
  <2>2. CASE node[online[o]] = FREED
    BY <1>5, <2>2, FaultStep DEF soft_block_cb
  <2>3. CASE node[online[o]] = o
    <3>1. node[online[o]] # NULL /\ o # FREED
      BY <2>3 DEF Devices
    <3>2. \A p \in Ofono : idle[p] # online[o]
      BY <1>1, <1>5, <2>3, <3>1 DEF IInv, Outstanding
    <3> QED
      BY <1>1, <1>2, <1>5, <2>1, <3>1, <3>2, CallbackStep
  <2> QED
    BY <2>1, <2>2, <2>3
<1> QED
  BY <1>3, <1>4, <1>5

\* A device that leaves the list frees its node: no task points outside the list.
LEMMA DeviceLeaves ==
    ASSUME IInv, NEW d \in Range(devices), del_device(d)
    PROVE  /\ devices' \in Seq(Devices)
           /\ node' \in [TaskIds -> Devices \cup {NULL, FREED}]
           /\ \A t \in TaskIds : node'[t] = IF node[t] = d THEN FREED ELSE node[t]
           /\ walked' \subseteq Devices /\ agreed' \subseteq Devices
           /\ NodesListed'
<1> USE KillswitchAssumption DEF KillswitchAssumption
<1>1. TypeOK
  BY DEF IInv
<1>2. devices' \in Seq(Devices) /\ Range(devices) \ {d} \subseteq Range(devices')
  BY <1>1, RemovedFromList DEF TypeOK, del_device
<1>3. \A t \in TaskIds : node'[t] = IF node[t] = d THEN FREED ELSE node[t]
  BY DEF del_device
<1>4. node' \in [TaskIds -> Devices \cup {NULL, FREED}]
  BY <1>1 DEF TypeOK, del_device
<1>5. NodesListed'
  BY <1>2, <1>3 DEF IInv, NodesListed, FREED, Devices
<1> QED
  BY <1>1, <1>2, <1>3, <1>4, <1>5 DEF TypeOK, del_device

LEMMA RemoveDeviceStep ==
    ASSUME IInv, NEW d \in Devices, RemoveDevice(d)
    PROVE  IInv'
<1> USE KillswitchAssumption DEF KillswitchAssumption
<1>1. /\ TypeOK /\ d \in Range(devices) /\ del_device(d) /\ state_refresh
      /\ UNCHANGED <<set_block_task, pending_device_task, caller, ioVars, fault>>
      /\ soft' \in [Devices -> BOOLEAN] /\ hard' \in [Devices -> BOOLEAN]
  BY DEF IInv, RemoveDevice, TypeOK, beliefs
<1>2. /\ devices' \in Seq(Devices)
      /\ node' \in [TaskIds -> Devices \cup {NULL, FREED}]
      /\ \A t \in TaskIds : node'[t] = IF node[t] = d THEN FREED ELSE node[t]
      /\ walked' \subseteq Devices /\ agreed' \subseteq Devices
      /\ NodesListed'
  BY <1>1, DeviceLeaves
<1>3. TypeOK'
  BY <1>1, <1>2, RefreshTypes DEF TypeOK, ioVars
<1>4. Outstanding(node', deferred', online')
  BY <1>1, <1>2 DEF IInv, Outstanding, ioVars, NULL, FREED
<1>5. OrphansFreed'
  BY <1>1, <1>2 DEF IInv, TypeOK, OrphansFreed, ioVars
<1>6. EmptyAnswer' /\ CallerOwned' /\ WalkDriven'
  BY <1>1 DEF IInv, EmptyAnswer, CallerOwned, WalkDriven, Queued, ioVars
<1> QED
  BY <1>2, <1>3, <1>4, <1>5, <1>6 DEF IInv

LEMMA RemoveModemStep ==
    ASSUME IInv, NEW o \in Ofono, RemoveModem(o)
    PROVE  IInv'
<1> USE KillswitchAssumption DEF KillswitchAssumption
<1>1. /\ TypeOK /\ state_refresh
      /\ UNCHANGED <<set_block_task, pending_device_task, caller, deferred, fault>>
      /\ soft' \in [Devices -> BOOLEAN] /\ hard' \in [Devices -> BOOLEAN]
      /\ online' \in [Ofono -> TaskIds \cup {IDLE, PLAIN}]
      /\ \A p \in Ofono : online'[p] = IF p = o THEN IDLE ELSE online[p]
      /\ orphans' = orphans \cup ({online[o]} \ {IDLE, PLAIN})
  BY DEF IInv, RemoveModem, TypeOK, Devices
<1>2. /\ devices' \in Seq(Devices)
      /\ node' \in [TaskIds -> Devices \cup {NULL, FREED}]
      /\ \A t \in TaskIds : node'[t] = IF node[t] = o THEN FREED ELSE node[t]
      /\ walked' \subseteq Devices /\ agreed' \subseteq Devices
      /\ NodesListed'
  <2>1. CASE o \in Range(devices)
    BY <2>1, DeviceLeaves DEF RemoveModem
  <2>2. CASE o \notin Range(devices)
    <3>1. UNCHANGED <<devices, node, walked, agreed>>
      BY <2>2 DEF RemoveModem
    <3>2. \A t \in TaskIds : node[t] # o
      BY <2>2 DEF IInv, NodesListed, Devices
    <3> QED
      BY <1>1, <3>1, <3>2 DEF IInv, TypeOK, NodesListed
  <2> QED
    BY <2>1, <2>2
<1>3. TypeOK'
  BY <1>1, <1>2, RefreshTypes DEF TypeOK
<1>4. Outstanding(node', deferred', online')
  BY <1>1, <1>2 DEF IInv, Outstanding, NULL, FREED
<1>5. OrphansFreed'
  BY <1>1, <1>2 DEF IInv, TypeOK, OrphansFreed, Outstanding
<1>6. EmptyAnswer' /\ CallerOwned'
  BY <1>1 DEF IInv, EmptyAnswer, CallerOwned, Queued
<1>7. WalkDriven'
  BY <1>1 DEF IInv, WalkDriven
<1> QED
  BY <1>2, <1>3, <1>4, <1>5, <1>6, <1>7 DEF IInv

LEMMA AddDeviceStep ==
    ASSUME IInv, NEW d \in Devices, AddDevice(d)
    PROVE  IInv'
<1> USE KillswitchAssumption DEF KillswitchAssumption
<1>1. /\ TypeOK /\ state_refresh /\ devices' = <<d>> \o devices
      /\ UNCHANGED <<walkVars, deferred, orphans, fault>>
      /\ soft' \in [Devices -> BOOLEAN] /\ hard' \in [Devices -> BOOLEAN]
      /\ online' \in [Ofono -> TaskIds \cup {IDLE, PLAIN}]
      /\ \A p \in Ofono : \/ online'[p] = online[p]
                          \/ online[p] = IDLE /\ online'[p] = PLAIN
  BY DEF IInv, AddDevice, TypeOK, beliefs
<1>2. devices' \in Seq(Devices) /\ Range(devices) \subseteq Range(devices')
  BY <1>1, AddedToList DEF TypeOK
<1>3. TypeOK'
  BY <1>1, <1>2, RefreshTypes DEF TypeOK, walkVars
<1>4. Outstanding(node', deferred', online')
  BY <1>1 DEF IInv, Outstanding, walkVars
<1>5. NodesListed' /\ OrphansFreed'
  BY <1>1, <1>2 DEF IInv, NodesListed, OrphansFreed, walkVars
<1>6. EmptyAnswer' /\ CallerOwned'
  BY <1>1 DEF IInv, EmptyAnswer, CallerOwned, Queued, walkVars
<1>7. WalkDriven'
  BY <1>1 DEF IInv, WalkDriven, walkVars
<1> QED
  BY <1>3, <1>4, <1>5, <1>6, <1>7 DEF IInv

\* A report of the kernel or of oFono leaves the walk alone.
LEMMA ReportStep ==
    ASSUME IInv, state_refresh \/ UNCHANGED views,
           soft' \in [Devices -> BOOLEAN], hard' \in [Devices -> BOOLEAN],
           UNCHANGED <<devices, walkVars, ioVars, fault>>
    PROVE  IInv'
<1>1. devices' \in Seq(Devices)
  BY DEF IInv, TypeOK
<1>2. state' \in KillswitchState /\ announced' \in KillswitchState
  BY <1>1, RefreshTypes DEF IInv, TypeOK, views
<1>3. TypeOK'
  BY <1>2 DEF IInv, TypeOK, walkVars, ioVars
<1> QED
  BY <1>3 DEF IInv, Outstanding, NodesListed, OrphansFreed, EmptyAnswer, CallerOwned,
              WalkDriven, NoneTwice, Queued, walkVars, ioVars

LEMMA SetModemStep ==
    ASSUME IInv, NEW o \in Ofono, SetModem(o)
    PROVE  IInv'
<1> USE KillswitchAssumption DEF KillswitchAssumption
<1>1. /\ TypeOK
      /\ UNCHANGED <<devices, soft, hard, state, announced, walkVars, deferred, orphans, fault>>
      /\ online' \in [Ofono -> TaskIds \cup {IDLE, PLAIN}]
      /\ \A p \in Ofono : \/ online'[p] = online[p]
                          \/ online[p] = IDLE /\ online'[p] = PLAIN
  BY DEF IInv, SetModem, TypeOK, beliefs, views
<1>2. TypeOK'
  BY <1>1 DEF TypeOK, walkVars
<1>3. Outstanding(node', deferred', online')
  BY <1>1 DEF IInv, Outstanding, walkVars
<1>4. NodesListed' /\ OrphansFreed'
  BY <1>1 DEF IInv, NodesListed, OrphansFreed, walkVars
<1>5. EmptyAnswer' /\ CallerOwned'
  BY <1>1 DEF IInv, EmptyAnswer, CallerOwned, Queued, walkVars
<1>6. WalkDriven'
  BY <1>1 DEF IInv, WalkDriven, walkVars
<1> QED
  BY <1>2, <1>3, <1>4, <1>5, <1>6 DEF IInv

\* A daemon that has just started has no device and nothing outstanding.
Fresh ==
    /\ devices = <<>>
    /\ soft = [d \in Devices |-> FALSE] /\ hard = [d \in Devices |-> FALSE]
    /\ state = NO_ADAPTER /\ announced = NO_ADAPTER
    /\ set_block_task = FALSE /\ pending_device_task = NULL
    /\ node = [t \in TaskIds |-> NULL]
    /\ deferred = <<>>
    /\ online = [o \in Ofono |-> IDLE]
    /\ orphans = {}
    /\ caller = "idle"
    /\ walked = {} /\ agreed = {}
    /\ fault = "none"

LEMMA FreshIsFine == Fresh => IInv
<1> USE KillswitchAssumption DEF KillswitchAssumption
<1> SUFFICES ASSUME Fresh PROVE IInv
  OBVIOUS
<1>1. deferred \in Seq(Entry) /\ devices \in Seq(Devices) /\ DOMAIN deferred = {}
  BY EmptySeq DEF Fresh
<1>2. TypeOK
  BY <1>1 DEF Fresh, TypeOK, Entry, KillswitchState
<1>3. Outstanding(node, deferred, online)
  BY <1>1 DEF Fresh, Outstanding, NoneTwice, Queued
<1>4. NodesListed /\ OrphansFreed
  BY DEF Fresh, NodesListed, OrphansFreed, NULL, Devices
<1>5. EmptyAnswer /\ CallerOwned /\ WalkDriven
  BY <1>1 DEF Fresh, EmptyAnswer, CallerOwned, WalkDriven, Queued
<1> QED
  BY <1>2, <1>3, <1>4, <1>5 DEF IInv

LEMMA IInvStep ==
    ASSUME IInv, [Next]_vars
    PROVE  IInv'
<1>1. CASE SetBlock
  BY <1>1, CallStep DEF SetBlock
<1>2. CASE SetBlockNull
  BY <1>2, CallStep DEF SetBlockNull
<1>3. CASE Dispatch
  BY <1>3, DispatchStep
<1>4. CASE \E o \in Ofono : OnlineReply(o)
  BY <1>4, OnlineReplyStep
<1>5. CASE OrphanReply
  <2>1. PICK t \in orphans, ok \in BOOLEAN : soft_block_cb(t, ok, deferred, online)
    BY <1>5 DEF OrphanReply
  <2>2. node[t] = FREED
    BY DEF IInv, OrphansFreed
  <2> QED
    BY <2>1, <2>2, FaultStep DEF soft_block_cb
<1>6. CASE \E o \in Ofono : SetModem(o)
  BY <1>6, SetModemStep
<1>7. CASE \E k \in Kernel : KernelChange(k)
  BY <1>7, ReportStep DEF KernelChange, IInv, TypeOK
<1>8. CASE \E o \in Ofono : ModemChange(o)
  BY <1>8, ReportStep DEF ModemChange, IInv, TypeOK, Devices
<1>9. CASE \E d \in Devices : AddDevice(d)
  BY <1>9, AddDeviceStep
<1>10. CASE \E d \in Devices : RemoveDevice(d)
  BY <1>10, RemoveDeviceStep
<1>11. CASE \E o \in Ofono : RemoveModem(o)
  BY <1>11, RemoveModemStep
<1>12. CASE Restart
  <2>1. Fresh'
    BY <1>12 DEF Restart, Fresh
  <2> QED
    BY <2>1, FreshIsFine, PTL
<1>13. CASE UNCHANGED vars
  BY <1>13, FaultStep DEF IInv, TypeOK, vars
<1> QED
  BY <1>1, <1>2, <1>3, <1>4, <1>5, <1>6, <1>7, <1>8, <1>9, <1>10, <1>11, <1>12, <1>13 DEF Next

LEMMA IInvAlways == Spec => []IInv
<1>1. Init => IInv
  BY FreshIsFine DEF Init, Fresh
<1>2. IInv /\ [Next]_vars => IInv'
  BY IInvStep
<1> QED
  BY <1>1, <1>2, PTL DEF Spec

\* Every variable keeps its type; in particular a walk that goes on always finds
\* its node and the next one in the list.
THEOREM TypeCorrect == Spec => []TypeOK
BY IInvAlways, PTL DEF IInv

\* A caller that waits on urf_killswitch_set_software_blocked is waiting for its
\* walk or for the deferred answer of an empty killswitch.
THEOREM CallerIsOwned == Spec => []CallerOwned
BY IInvAlways, PTL DEF IInv

\* As long as the killswitch holds the task of a caller, the answer that makes its
\* walk go on is queued or a D-Bus reply is to come, whatever is called, plugged
\* and unplugged meanwhile.
THEOREM WalkIsDriven == Spec => []WalkDriven
BY IInvAlways, PTL DEF IInv

-----------------------------------------------------------------------------
(* What OK means: the devices behind the walk have agreed.                 *)

\* A device is in the list once.
Once == \A i, j \in DOMAIN devices : devices[i] = devices[j] => i = j

\* The devices that have been there since the walk started are still there.
WalkedListed == walked \subseteq Range(devices)

\* Of them, those before the node the walk waits for have answered with success.
BehindAgreed ==
    set_block_task =>
      \A i, j \in DOMAIN devices :
        devices[j] = node[pending_device_task] /\ i < j /\ devices[i] \in walked
          => devices[i] \in agreed

PInv == Once /\ WalkedListed /\ BehindAgreed

OkStep == set_block_task /\ caller' = "ok" => walked \subseteq agreed'

LEMMA SameWalkStep ==
    ASSUME PInv, UNCHANGED <<devices, walked, agreed, node, pending_device_task>>,
           set_block_task' => set_block_task
    PROVE  PInv'
BY DEF PInv, Once, WalkedListed, BehindAgreed

LEMMA CallOrder ==
    ASSUME IInv, PInv, NEW withTask \in BOOLEAN,
           set_software_blocked(withTask), UNCHANGED devices
    PROVE  PInv'
<1>1. TypeOK
  BY DEF IInv
<1>2. ASSUME devices # <<>>, NEW t \in Free(node),
             pending_device_task' = t,
             node' = [node EXCEPT ![t] = Head(devices)],
             walked' = Range(devices)
      PROVE  PInv'
  <2>1. node'[pending_device_task'] = Head(devices)
    BY <1>1, <1>2 DEF TypeOK, Free
  <2>2. 1 \in DOMAIN devices /\ Head(devices) = devices[1] /\ DOMAIN devices = 1..Len(devices)
        /\ Len(devices) \in Nat
    BY <1>1, <1>2, EmptySeq, HeadTailProperties, LenProperties DEF TypeOK
  <2>3. \A j \in DOMAIN devices : devices[j] = Head(devices) => j = 1
    BY <2>2 DEF PInv, Once
  <2>4. BehindAgreed'
    BY <2>1, <2>2, <2>3 DEF BehindAgreed
  <2> QED
    BY <1>2, <2>4 DEF PInv, Once, WalkedListed
<1>3. CASE UNCHANGED <<set_block_task, pending_device_task, node, online, walked, agreed>>
  BY <1>3, SameWalkStep
<1> QED
  BY <1>2, <1>3 DEF set_software_blocked

\* A device that agrees is behind the walk when it goes on; when it is the last
\* one and the caller is told OK, every device is.
LEMMA CallbackOrder ==
    ASSUME IInv, PInv, NEW t \in TaskIds, NEW ok \in BOOLEAN, node[t] # NULL,
           NEW dfr, NEW onl, soft_block_cb(t, ok, dfr, onl)
    PROVE  PInv' /\ OkStep
<1> USE KillswitchAssumption DEF KillswitchAssumption
<1>1. CASE node[t] = FREED \/ t # pending_device_task
  <2>1. UNCHANGED <<devices, walkVars>>
    BY <1>1 DEF soft_block_cb
  <2>2. set_block_task => caller' # "ok"
    BY <2>1 DEF IInv, CallerOwned, walkVars
  <2> QED
    BY <2>1, <2>2, SameWalkStep DEF walkVars, OkStep
<1>2. CASE ~ (node[t] = FREED \/ t # pending_device_task)
  <2> DEFINE here == NodeOf(node[t])
             left == [node EXCEPT ![t] = NULL]
  <2>1. /\ TypeOK /\ t = pending_device_task /\ node[t] \in Range(devices)
        /\ Len(devices) \in Nat /\ DOMAIN devices = 1..Len(devices)
        /\ here \in 1..Len(devices) /\ devices[here] = node[t]
    BY <1>2, NodeThere, Members DEF IInv, TypeOK, NodesListed
  <2>2. /\ UNCHANGED devices
        /\ \/ /\ here < Len(devices)
              /\ \E u \in Free(left) :
                   /\ pending_device_task' = u
                   /\ node' = [left EXCEPT ![u] = devices[here + 1]]
              /\ agreed' = agreed \cup {node[t]}
              /\ UNCHANGED <<set_block_task, caller, walked>>
           \/ /\ ~ (ok /\ here < Len(devices))
              /\ Answer(ok)
    BY <1>2 DEF soft_block_cb
  <2> HIDE DEF here
  <2>3. ASSUME here < Len(devices), NEW u \in Free(left),
               pending_device_task' = u,
               node' = [left EXCEPT ![u] = devices[here + 1]],
               agreed' = agreed \cup {node[t]},
               UNCHANGED <<set_block_task, caller, walked>>
        PROVE  PInv' /\ OkStep
    <3>1. node'[pending_device_task'] = devices[here + 1]
      BY <2>1, <2>3 DEF TypeOK, Free
    <3>2. ASSUME set_block_task', NEW i \in DOMAIN devices, NEW j \in DOMAIN devices,
                 devices[j] = devices[here + 1], i < j, devices[i] \in walked
          PROVE  devices[i] \in agreed'
      <4>1. j = here + 1
        BY <2>1, <2>3, <3>2 DEF PInv, Once
      <4>2. CASE i = here
        BY <2>1, <2>3, <4>2
      <4>3. CASE i < here
        <5>1. devices[i] \in agreed
          BY <2>1, <2>3, <3>2, <4>3 DEF PInv, BehindAgreed
        <5> QED
          BY <2>3, <5>1
      <4> QED
        BY <2>1, <3>2, <4>1, <4>2, <4>3
    <3>3. BehindAgreed'
      BY <2>2, <2>3, <3>1, <3>2 DEF BehindAgreed
    <3>4. PInv'
      BY <2>2, <2>3, <3>3 DEF PInv, Once, WalkedListed
    <3>5. OkStep
      BY <2>3 DEF OkStep, IInv, CallerOwned
    <3> QED
      BY <3>4, <3>5
  <2>4. ASSUME ~ (ok /\ here < Len(devices)), Answer(ok) PROVE PInv' /\ OkStep
    <3>1. PInv'
      BY <2>2, <2>4 DEF PInv, Once, WalkedListed, BehindAgreed, Answer
    <3>2. ASSUME set_block_task, caller' = "ok", NEW d \in walked PROVE d \in agreed'
      <4>1. ok /\ agreed' = agreed \cup {node[t]}
        BY <2>1, <2>4, <3>2 DEF Answer
      <4>2. here = Len(devices)
        <5>1. ~ (here < Len(devices))
          BY <2>4, <4>1
        <5> DEFINE l == Len(devices)
        <5>2. l \in Nat /\ here \in 1..l /\ ~ (here < l)
          BY <2>1, <5>1
        <5> HIDE DEF l
        <5>3. here = l
          BY <5>2
        <5> QED
          BY <5>3 DEF l
      <4>3. PICK i \in DOMAIN devices : devices[i] = d
        BY <3>2 DEF PInv, WalkedListed, Range
      <4>4. i = here \/ i < here
        BY <2>1, <4>2, <4>3
      <4>5. CASE i = here
        BY <2>1, <4>1, <4>3, <4>5
      <4>6. CASE i < here
        BY <2>1, <3>2, <4>1, <4>3, <4>6 DEF PInv, BehindAgreed
      <4> QED
        BY <4>4, <4>5, <4>6
    <3> QED
      BY <3>1, <3>2 DEF OkStep
  <2> QED
    BY <2>2, <2>3, <2>4
<1> QED
  BY <1>1, <1>2

\* A removed device changes neither the order of the others nor who has agreed.
LEMMA RemovalOrder ==
    ASSUME IInv, PInv, NEW d \in Range(devices), del_device(d),
           UNCHANGED <<set_block_task, pending_device_task>>
    PROVE  PInv'
<1> USE KillswitchAssumption DEF KillswitchAssumption
<1> DEFINE n == NodeOf(d)
           at(i) == IF i < n THEN i ELSE i + 1
<1>1. /\ TypeOK /\ d \in Devices
      /\ Len(devices) \in Nat /\ DOMAIN devices = 1..Len(devices)
      /\ n \in 1..Len(devices) /\ devices[n] = d
  BY NodeThere, Members DEF IInv, TypeOK
<1>2. /\ devices' \in Seq(Devices)
      /\ Range(devices) \ {d} \subseteq Range(devices')
      /\ Len(devices') = Len(devices) - 1
      /\ \A i \in 1..(Len(devices) - 1) :
           devices'[i] = IF i < n THEN devices[i] ELSE devices[i + 1]
  BY <1>1, RemovedFromList DEF TypeOK, del_device
<1>3. DOMAIN devices' = 1..(Len(devices) - 1)
  BY <1>2, LenProperties
<1> HIDE DEF n
<1>4. ASSUME NEW i \in DOMAIN devices'
      PROVE  at(i) \in DOMAIN devices /\ at(i) # n /\ devices'[i] = devices[at(i)]
  BY <1>1, <1>2, <1>3
<1>5. ASSUME NEW i \in DOMAIN devices', NEW j \in DOMAIN devices'
      PROVE  /\ at(i) = at(j) => i = j
             /\ i < j => at(i) < at(j)
  BY <1>1, <1>3
<1> HIDE DEF at
<1>6. Once'
  BY <1>4, <1>5 DEF PInv, Once
<1>7. WalkedListed'
  BY <1>2 DEF PInv, WalkedListed, del_device
<1>8. ASSUME set_block_task, NEW i \in DOMAIN devices', NEW j \in DOMAIN devices',
             devices'[j] = node'[pending_device_task], i < j, devices'[i] \in walked'
      PROVE  devices'[i] \in agreed'
  <2>1. devices[at(j)] # d /\ devices[at(i)] # d
    BY <1>1, <1>4 DEF PInv, Once
  <2>2. devices[at(j)] \in Devices
    BY <1>1, <1>4, Members DEF TypeOK
  <2>3. pending_device_task \in TaskIds
    BY <1>8 DEF IInv, WalkDriven
  <2>4. node'[pending_device_task] = node[pending_device_task]
    BY <1>4, <1>8, <2>2, <2>3 DEF del_device, Devices
  <2>5. devices[at(i)] \in agreed
    BY <1>4, <1>5, <1>8, <2>4 DEF PInv, BehindAgreed, del_device
  <2> QED
    BY <1>4, <2>1, <2>5 DEF del_device
<1>9. BehindAgreed'
  BY <1>8 DEF BehindAgreed
<1> QED
  BY <1>6, <1>7, <1>9 DEF PInv

\* A new device goes before all others, and no walk has seen it.
LEMMA AdditionOrder ==
    ASSUME IInv, PInv, NEW d \in Devices, AddDevice(d)
    PROVE  PInv'
<1> USE KillswitchAssumption DEF KillswitchAssumption
<1>1. /\ devices \in Seq(Devices) /\ d \notin Range(devices)
      /\ devices' = <<d>> \o devices
      /\ UNCHANGED <<set_block_task, pending_device_task, node, walked, agreed>>
  BY DEF IInv, TypeOK, AddDevice, walkVars
<1>2. /\ Len(devices) \in Nat /\ DOMAIN devices = 1..Len(devices)
      /\ \A i \in DOMAIN devices : devices[i] \in Range(devices)
  BY <1>1, Members
<1>3. /\ devices' \in Seq(Devices)
      /\ Range(devices) \subseteq Range(devices')
      /\ Len(devices') = Len(devices) + 1
      /\ devices'[1] = d
      /\ \A i \in 2..(Len(devices) + 1) : devices'[i] = devices[i - 1]
  BY <1>1, AddedToList
<1>4. DOMAIN devices' = 1..(Len(devices) + 1)
  BY <1>3, LenProperties
<1>5. ASSUME NEW i \in DOMAIN devices', i # 1
      PROVE  i - 1 \in DOMAIN devices /\ devices'[i] = devices[i - 1] /\ devices'[i] # d
  <2>1. i \in 2..(Len(devices) + 1) /\ i - 1 \in 1..Len(devices)
    BY <1>2, <1>4, <1>5
  <2> QED
    BY <1>1, <1>2, <1>3, <2>1
<1>6. ASSUME NEW i \in DOMAIN devices', NEW j \in DOMAIN devices', devices'[i] = devices'[j]
      PROVE  i = j
  <2>1. i = 1 <=> j = 1
    BY <1>3, <1>5, <1>6
  <2>2. ASSUME i # 1, j # 1 PROVE i = j
    <3>1. i - 1 = j - 1
      BY <1>5, <1>6, <2>2 DEF PInv, Once
    <3> QED
      BY <1>2, <1>4, <3>1
  <2> QED
    BY <2>1, <2>2
<1>7. ASSUME set_block_task, NEW i \in DOMAIN devices', NEW j \in DOMAIN devices',
             devices'[j] = node[pending_device_task], i < j, devices'[i] \in walked
      PROVE  devices'[i] \in agreed
  <2>1. i # 1
    BY <1>1, <1>3, <1>7 DEF PInv, WalkedListed
  <2>2. j # 1
    BY <1>2, <1>4, <1>7
  <2>3. i - 1 < j - 1
    BY <1>2, <1>4, <1>7
  <2> QED
    BY <1>5, <1>7, <2>1, <2>2, <2>3 DEF PInv, BehindAgreed
<1>8. Once'
  BY <1>6 DEF Once
<1>9. WalkedListed'
  BY <1>1, <1>3 DEF PInv, WalkedListed
<1>10. BehindAgreed'
  BY <1>1, <1>7 DEF BehindAgreed
<1> QED
  BY <1>8, <1>9, <1>10 DEF PInv

LEMMA PInvStep ==
    ASSUME IInv, PInv, [Next]_vars
    PROVE  PInv' /\ (OkStep \/ UNCHANGED vars)
<1> USE KillswitchAssumption DEF KillswitchAssumption
<1>1. TypeOK /\ (set_block_task => caller = "waiting")
  BY DEF IInv, CallerOwned
<1>2. ASSUME UNCHANGED caller PROVE OkStep
  BY <1>1, <1>2 DEF OkStep
<1>3. ASSUME UNCHANGED <<devices, walkVars>> PROVE PInv' /\ OkStep
  BY <1>2, <1>3, SameWalkStep DEF walkVars
<1>4. CASE SetBlock
  <2>1. caller' = "waiting"
    BY <1>4 DEF SetBlock, set_software_blocked
  <2> QED
    BY <1>4, <2>1, CallOrder DEF SetBlock, OkStep
<1>5. CASE SetBlockNull
  <2>1. set_block_task => caller' # "ok"
    BY <1>1, <1>5 DEF SetBlockNull, set_software_blocked
  <2> QED
    BY <1>5, <2>1, CallOrder DEF SetBlockNull, OkStep
<1>6. CASE Dispatch
  <2> DEFINE e == Head(deferred)
             r == Tail(deferred)
  <2>1. deferred \in Seq(Entry) /\ deferred # <<>>
    BY <1>1, <1>6 DEF TypeOK, Entry, Dispatch
  <2>2. e \in Entry /\ Queued(deferred, e.task)
    BY <2>1, TailQueued
  <2>3. \/ /\ e.task = CALLER
           /\ UNCHANGED <<devices, set_block_task, pending_device_task, node, walked, agreed>>
        \/ e.task # CALLER /\ soft_block_cb(e.task, e.ok, r, online)
    BY <1>6 DEF Dispatch
  <2> HIDE DEF e, r
  <2>4. CASE /\ e.task = CALLER
             /\ UNCHANGED <<devices, set_block_task, pending_device_task, node, walked, agreed>>
    BY <2>2, <2>4, SameWalkStep DEF IInv, EmptyAnswer, OkStep
  <2>5. CASE e.task # CALLER /\ soft_block_cb(e.task, e.ok, r, online)
    <3>1. e.task \in TaskIds /\ e.ok \in BOOLEAN /\ node[e.task] # NULL
      BY <2>2, <2>5 DEF Entry, IInv, Outstanding
    <3> QED
      BY <2>5, <3>1, CallbackOrder
  <2> QED
    BY <2>3, <2>4, <2>5
<1>7. ASSUME NEW o \in Ofono, OnlineReply(o) PROVE PInv' /\ OkStep
  <2>1. CASE online[o] = PLAIN
    BY <1>3, <1>7, <2>1 DEF OnlineReply
  <2>2. CASE online[o] # PLAIN
    <3>1. online[o] \in TaskIds
      BY <1>1, <1>7, <2>2 DEF OnlineReply, TypeOK
    <3>2. node[online[o]] # NULL
      BY <3>1 DEF IInv, Outstanding, NULL, FREED, Devices
    <3>3. PICK ok \in BOOLEAN :
             soft_block_cb(online[o], ok, deferred, [online EXCEPT ![o] = IDLE])
      BY <1>7, <2>2 DEF OnlineReply
    <3> QED
      BY <3>1, <3>2, <3>3, CallbackOrder
  <2> QED
    BY <2>1, <2>2
<1>8. CASE OrphanReply
  <2>1. PICK t \in orphans, ok \in BOOLEAN : soft_block_cb(t, ok, deferred, online)
    BY <1>8 DEF OrphanReply
  <2>2. t \in TaskIds /\ node[t] # NULL
    BY <1>1 DEF IInv, OrphansFreed, TypeOK, NULL, FREED
  <2> QED
    BY <2>1, <2>2, CallbackOrder
<1>9. CASE \/ \E o \in Ofono : SetModem(o) \/ ModemChange(o)
           \/ \E k \in Kernel : KernelChange(k)
  BY <1>3, <1>9 DEF SetModem, ModemChange, KernelChange
<1>10. ASSUME NEW d \in Devices, AddDevice(d) PROVE PInv' /\ OkStep
  BY <1>2, <1>10, AdditionOrder DEF AddDevice, walkVars
<1>11. ASSUME NEW d \in Devices, RemoveDevice(d) PROVE PInv' /\ OkStep
  BY <1>2, <1>11, RemovalOrder DEF RemoveDevice
<1>12. ASSUME NEW o \in Ofono, RemoveModem(o) PROVE PInv' /\ OkStep
  <2>1. CASE o \in Range(devices)
    BY <1>2, <1>12, <2>1, RemovalOrder DEF RemoveModem
  <2>2. CASE o \notin Range(devices)
    BY <1>3, <1>12, <2>2 DEF RemoveModem, walkVars
  <2> QED
    BY <2>1, <2>2
<1>13. CASE Restart
  <2>1. devices' = <<>> /\ walked' = {} /\ caller' = "idle" /\ DOMAIN devices' = {}
    BY <1>13, EmptySeq DEF Restart
  <2> QED
    BY <2>1 DEF PInv, Once, WalkedListed, BehindAgreed, OkStep
<1>14. CASE UNCHANGED vars
  BY <1>3, <1>14 DEF vars
<1> QED
  BY <1>4, <1>5, <1>6, <1>7, <1>8, <1>9, <1>10, <1>11, <1>12, <1>13, <1>14 DEF Next

\* The walk answers OK only when every device that was in the list from its start
\* to its end has answered with success, for any devices and any interleaving.
THEOREM OkIsUnanimous == Spec => OkMeansAllAgreed
<1>1. Init => IInv /\ PInv
  <2>1. ASSUME Init PROVE PInv
    <3>1. devices = <<>> /\ walked = {} /\ DOMAIN devices = {}
      BY <2>1, EmptySeq DEF Init
    <3> QED
      BY <3>1 DEF PInv, Once, WalkedListed, BehindAgreed
  <2> QED
    BY <2>1, FreshIsFine DEF Init, Fresh
<1>2. IInv /\ PInv /\ [Next]_vars => IInv' /\ PInv'
  BY IInvStep, PInvStep
<1>3. IInv /\ PInv /\ [Next]_vars
        => [set_block_task /\ caller' = "ok" => walked \subseteq agreed']_vars
  BY PInvStep DEF OkStep
<1> QED
  BY <1>1, <1>2, <1>3, PTL DEF Spec, OkMeansAllAgreed
-----------------------------------------------------------------------------
(* One call at a time, and no device that leaves during a walk.            *)

\* The only task that may be outstanding is the one the killswitch waits for, on
\* behalf of a caller, and the device it was given to is still there.
Alone ==
    /\ NoAbort
    /\ \A t \in TaskIds :
         node[t] # NULL => t = pending_device_task /\ set_block_task /\ node[t] \in Devices

LEMMA AloneKept ==
    ASSUME Alone, UNCHANGED <<node, pending_device_task, set_block_task, fault>>
    PROVE  Alone'
BY DEF Alone, NoAbort

\* The callback finds its own task pending; it ends it before it gives another.
LEMMA CallbackAlone ==
    ASSUME IInv, Alone, NEW t \in TaskIds, NEW ok, NEW dfr, NEW onl,
           node[t] # NULL, soft_block_cb(t, ok, dfr, onl)
    PROVE  Alone'
<1> USE KillswitchAssumption DEF KillswitchAssumption
<1> DEFINE left == [node EXCEPT ![t] = NULL]
<1>1. /\ TypeOK /\ t = pending_device_task /\ set_block_task
      /\ node[t] \in Devices /\ node[t] # FREED
  BY DEF IInv, Alone, Devices
<1>2. \A u \in TaskIds : left[u] = NULL
  BY <1>1 DEF Alone, TypeOK
<1>3. /\ fault' = fault
      /\ \/ \E u \in TaskIds :
              /\ pending_device_task' = u
              /\ node' = [left EXCEPT ![u] = devices[NodeOf(node[t]) + 1]]
              /\ NodeOf(node[t]) < Len(devices)
              /\ UNCHANGED set_block_task
         \/ node' = left
  BY <1>1 DEF soft_block_cb, Free
<1>4. /\ Len(devices) \in Nat /\ NodeOf(node[t]) \in 1..Len(devices)
      /\ \A i \in 1..Len(devices) : devices[i] \in Devices
  BY <1>1, NodeThere, Members DEF IInv, TypeOK, NodesListed
<1>5. ASSUME NEW u \in TaskIds, pending_device_task' = u,
             node' = [left EXCEPT ![u] = devices[NodeOf(node[t]) + 1]],
             NodeOf(node[t]) < Len(devices), UNCHANGED set_block_task
      PROVE  Alone'
  <2>1. devices[NodeOf(node[t]) + 1] \in Devices
    BY <1>4, <1>5
  <2>2. \A v \in TaskIds : v # u => node'[v] = NULL
    BY <1>1, <1>2, <1>5 DEF TypeOK
  <2>3. node'[u] \in Devices
    BY <1>1, <1>5, <2>1 DEF TypeOK
  <2> QED
    BY <1>1, <1>3, <1>5, <2>2, <2>3 DEF Alone, NoAbort
<1>6. CASE node' = left
  <2>1. \A u \in TaskIds : node'[u] = NULL
    BY <1>2, <1>6
  <2> QED
    BY <1>3, <2>1 DEF Alone, NoAbort
<1> QED
  BY <1>3, <1>5, <1>6

\* A device leaves while nothing is outstanding: nothing is freed under a task.
LEMMA RemovalAlone ==
    ASSUME Alone, NEW d \in Devices, \A t \in TaskIds : node[t] = NULL,
           del_device(d) \/ UNCHANGED node, UNCHANGED fault
    PROVE  Alone'
<1>1. \A t \in TaskIds : node'[t] = NULL
  BY KillswitchAssumption DEF KillswitchAssumption, del_device
<1> QED
  BY <1>1 DEF Alone, NoAbort

LEMMA AloneStep ==
    ASSUME ~ NullCalls, ~ Removals, IInv, Alone, [Next]_vars
    PROVE  Alone'
<1> USE KillswitchAssumption DEF KillswitchAssumption
<1>1. TypeOK /\ (set_block_task => caller = "waiting")
  BY DEF IInv, CallerOwned
<1>2. CASE SetBlock
  <2>1. \A t \in TaskIds : node[t] = NULL
    BY <1>1, <1>2 DEF SetBlock, Alone
  <2>2. CASE devices = <<>>
    BY <1>2, <2>2, AloneKept DEF SetBlock, set_software_blocked
  <2>3. CASE devices # <<>>
    <3>1. PICK t \in TaskIds : /\ pending_device_task' = t
                               /\ node' = [node EXCEPT ![t] = Head(devices)]
      BY <1>2, <2>3 DEF SetBlock, set_software_blocked, Free
    <3>2. Head(devices) \in Devices /\ set_block_task' = TRUE /\ fault' = "none"
      BY <1>1, <1>2, <2>3, EmptySeq, HeadTailProperties
         DEF SetBlock, set_software_blocked, TypeOK
    <3>3. \A u \in TaskIds : node'[u] = IF u = t THEN Head(devices) ELSE NULL
      BY <1>1, <2>1, <3>1 DEF TypeOK
    <3> QED
      BY <3>1, <3>2, <3>3 DEF Alone, NoAbort
  <2> QED
    BY <2>2, <2>3
<1>3. CASE Dispatch
  <2> DEFINE e == Head(deferred)
             r == Tail(deferred)
  <2>1. deferred \in Seq(Entry) /\ deferred # <<>>
    BY <1>1, <1>3 DEF TypeOK, Entry, Dispatch
  <2>2. e \in Entry /\ Queued(deferred, e.task)
    BY <2>1, TailQueued
  <2>3. \/ UNCHANGED <<node, pending_device_task, set_block_task, fault>>
        \/ e.task # CALLER /\ soft_block_cb(e.task, e.ok, r, online)
    BY <1>3 DEF Dispatch
  <2> HIDE DEF e, r
  <2>4. CASE e.task # CALLER /\ soft_block_cb(e.task, e.ok, r, online)
    <3>1. e.task \in TaskIds /\ node[e.task] # NULL
      BY <2>2, <2>4 DEF Entry, IInv, Outstanding
    <3> QED
      BY <2>4, <3>1, CallbackAlone
  <2> QED
    BY <2>3, <2>4, AloneKept
<1>4. ASSUME NEW o \in Ofono, OnlineReply(o) PROVE Alone'
  <2>1. CASE online[o] = PLAIN
    BY <1>4, <2>1, AloneKept DEF OnlineReply, walkVars
  <2>2. CASE online[o] # PLAIN
    <3>1. online[o] \in TaskIds
      BY <1>1, <1>4, <2>2 DEF OnlineReply, TypeOK
    <3>2. node[online[o]] # NULL
      BY <3>1 DEF IInv, Outstanding, NULL, FREED, Devices
    <3>3. PICK ok \in BOOLEAN :
             soft_block_cb(online[o], ok, deferred, [online EXCEPT ![o] = IDLE])
      BY <1>4, <2>2 DEF OnlineReply
    <3> QED
      BY <3>1, <3>2, <3>3, CallbackAlone
  <2> QED
    BY <2>1, <2>2
<1>5. ~ OrphanReply
  BY <1>1 DEF OrphanReply, IInv, OrphansFreed, TypeOK, Alone, NULL, FREED, Devices
<1>6. CASE \/ \E o \in Ofono : SetModem(o) \/ ModemChange(o)
           \/ \E k \in Kernel : KernelChange(k)
           \/ \E d \in Devices : AddDevice(d)
           \/ UNCHANGED vars
  BY <1>6, AloneKept DEF SetModem, ModemChange, KernelChange, AddDevice, walkVars, vars
<1>7. ASSUME NEW d \in Devices, RemoveDevice(d) PROVE Alone'
  BY <1>7, RemovalAlone DEF RemoveDevice
<1>8. ASSUME NEW o \in Ofono, RemoveModem(o) PROVE Alone'
  BY <1>8, RemovalAlone DEF RemoveModem, Devices
<1>9. ~ SetBlockNull /\ ~ Restart
  BY DEF SetBlockNull, Restart, Alone, NoAbort
<1> QED
  BY <1>2, <1>3, <1>4, <1>5, <1>6, <1>7, <1>8, <1>9 DEF Next

\* Neither assertion of soft_block_cb can fail when every call carries the task of
\* a caller, who waits for its answer before the next call, and no device leaves
\* during a walk: the callback always finds its own task and its own list node.
THEOREM NoAssertionFails ==
    ASSUME ~ NullCalls, ~ Removals
    PROVE  Spec => []NoAbort
<1>1. Init => IInv /\ Alone
  <2>1. Init => Alone
    BY DEF Init, Alone, NoAbort
  <2> QED
    BY <2>1, FreshIsFine DEF Init, Fresh
<1>2. IInv /\ Alone /\ [Next]_vars => IInv' /\ Alone'
  BY IInvStep, AloneStep
<1>3. IInv /\ Alone => NoAbort
  BY DEF Alone
<1> QED
  BY <1>1, <1>2, <1>3, PTL DEF Spec
=============================================================================
