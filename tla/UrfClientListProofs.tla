------------------------- MODULE UrfClientListProofs -------------------------
(***************************************************************************)
(* Proofs about UrfClient, for any devices and any number of inputs that   *)
(* ClientAssumption allows, restarts of the daemon included: what the      *)
(* list of devices holds, and what state its objects and the killswitch    *)
(* have, when every message has been handled.                              *)
(***************************************************************************)
EXTENDS UrfClientProofs

-----------------------------------------------------------------------------
(* Sequences.                                                              *)

Injective(s) == \A i, j \in 1..Len(s) : s[i] = s[j] => i = j

\* r is q and then ms: what is sent goes behind what waits.
Joins(r, q, ms) ==
    /\ Len(r) = Len(q) + Len(ms) /\ Len(q) \in Nat /\ Len(ms) \in Nat
    /\ \A i \in 1..Len(q) : i \in 1..Len(r) /\ r[i] = q[i]
    /\ \A j \in 1..Len(ms) : Len(q) + j \in 1..Len(r) /\ r[Len(q) + j] = ms[j]
    /\ \A i \in 1..Len(r) : i \in 1..Len(q) \/ \E j \in 1..Len(ms) : i = Len(q) + j

LEMMA Joined ==
    ASSUME NEW S, NEW q \in Seq(S), NEW ms \in Seq(S)
    PROVE  q \o ms \in Seq(S) /\ Joins(q \o ms, q, ms)
<1> DEFINE r == q \o ms
<1>1. /\ r \in Seq(S) /\ Len(r) = Len(q) + Len(ms) /\ Len(q) \in Nat /\ Len(ms) \in Nat
      /\ \A i \in 1..(Len(q) + Len(ms)) :
           r[i] = IF i <= Len(q) THEN q[i] ELSE ms[i - Len(q)]
  BY ConcatProperties, LenProperties
<1> HIDE DEF r
<1>2. \A i \in 1..Len(q) : i \in 1..Len(r) /\ r[i] = q[i]
  BY <1>1
<1>3. ASSUME NEW j \in 1..Len(ms) PROVE Len(q) + j \in 1..Len(r) /\ r[Len(q) + j] = ms[j]
  <2>1. /\ Len(q) + j \in 1..(Len(q) + Len(ms)) /\ ~ (Len(q) + j <= Len(q))
        /\ (Len(q) + j) - Len(q) = j
    BY <1>1
  <2>2. r[Len(q) + j] = ms[(Len(q) + j) - Len(q)]
    BY <1>1, <2>1
  <2> QED
    BY <1>1, <2>1, <2>2
<1>4. ASSUME NEW i \in 1..Len(r), i \notin 1..Len(q)
      PROVE  \E j \in 1..Len(ms) : i = Len(q) + j
  <2>1. i - Len(q) \in 1..Len(ms) /\ i = Len(q) + (i - Len(q))
    BY <1>1, <1>4
  <2> QED
    BY <2>1
<1> QED
  BY <1>1, <1>2, <1>3, <1>4 DEF Joins, r

\* r is s without its element m; Was is the place that its elements had.
Was(m, j) == IF j < m THEN j ELSE j + 1

Without(r, s, m) ==
    /\ Len(s) \in Nat /\ Len(r) = Len(s) - 1
    /\ \A j \in 1..Len(r) :
         /\ Was(m, j) \in 1..Len(s) /\ Was(m, j) # m /\ r[j] = s[Was(m, j)]
         /\ \A i \in 1..Len(r) : Was(m, i) = Was(m, j) => i = j
    /\ \A k \in 1..Len(s) : k # m => \E j \in 1..Len(r) : r[j] = s[k]

LEMMA TakenOut ==
    ASSUME NEW S, NEW s \in Seq(S), NEW m \in 1..Len(s)
    PROVE  RemoveAt(s, m) \in Seq(S) /\ Without(RemoveAt(s, m), s, m)
<1> DEFINE a == SubSeq(s, 1, m - 1)
           b == SubSeq(s, m + 1, Len(s))
           r == RemoveAt(s, m)
<1>1. Len(s) \in Nat /\ \A k \in 1..Len(s) : s[k] \in S
  BY ElementOfSeq, LenProperties
<1>2. a \in Seq(S) /\ Len(a) = m - 1 /\ \A j \in 1..(m - 1) : a[j] = s[j]
  <2>1. \A k \in 1..(m - 1) : s[k] \in S
    BY <1>1
  <2>2. /\ a \in Seq(S)
        /\ Len(a) = IF 1 <= m - 1 THEN m - 1 - 1 + 1 ELSE 0
        /\ \A j \in 1..(m - 1 - 1 + 1) : a[j] = s[1 + j - 1]
    BY <2>1, SubSeqProperties
  <2> HIDE DEF a
  <2> QED
    BY <2>2
<1>3. /\ b \in Seq(S) /\ Len(b) = Len(s) - m
      /\ \A j \in 1..(Len(s) - m) : b[j] = s[m + j]
  <2>1. \A k \in (m + 1)..Len(s) : s[k] \in S
    BY <1>1
  <2>2. /\ b \in Seq(S)
        /\ Len(b) = IF m + 1 <= Len(s) THEN Len(s) - (m + 1) + 1 ELSE 0
        /\ \A j \in 1..(Len(s) - (m + 1) + 1) : b[j] = s[m + 1 + j - 1]
    BY <1>1, <2>1, SubSeqProperties
  <2> HIDE DEF b
  <2> QED
    BY <1>1, <2>2
<1>4. r = a \o b
  BY DEF RemoveAt
<1> HIDE DEF a, b, r
<1>5. /\ r \in Seq(S) /\ Len(r) = Len(s) - 1
      /\ \A j \in 1..Len(a) : r[j] = a[j]
      /\ \A j \in 1..Len(b) : r[Len(a) + j] = b[j]
  <2>1. r \in Seq(S) /\ Joins(r, a, b)
    BY <1>2, <1>3, <1>4, Joined
  <2> QED
    BY <1>1, <1>2, <1>3, <2>1 DEF Joins
<1>6. ASSUME NEW j \in 1..Len(r)
      PROVE  /\ Was(m, j) \in 1..Len(s) /\ Was(m, j) # m /\ r[j] = s[Was(m, j)]
             /\ \A i \in 1..Len(r) : Was(m, i) = Was(m, j) => i = j
  <2> \A i \in 1..Len(r) : Was(m, i) = Was(m, j) => i = j
    BY <1>1, <1>5 DEF Was
  <2>1. CASE j < m
    BY <1>1, <1>2, <1>5, <2>1 DEF Was
  <2>2. CASE ~ (j < m)
    <3>1. j - (m - 1) \in 1..Len(b) /\ Len(a) + (j - (m - 1)) = j
          /\ m + (j - (m - 1)) = j + 1 /\ j + 1 \in 1..Len(s)
      BY <1>1, <1>2, <1>3, <1>5, <2>2
    <3>2. r[Len(a) + (j - (m - 1))] = s[m + (j - (m - 1))]
      BY <1>3, <1>5, <3>1
    <3> QED
      BY <2>2, <3>1, <3>2 DEF Was
  <2> QED
    BY <2>1, <2>2
<1>7. ASSUME NEW k \in 1..Len(s), k # m PROVE \E j \in 1..Len(r) : r[j] = s[k]
  <2>1. CASE k < m
    <3>1. k \in 1..Len(r) /\ r[k] = s[k]
      BY <1>1, <1>2, <1>5, <2>1
    <3> QED
      BY <3>1
  <2>2. CASE k > m
    <3>1. k - 1 \in 1..Len(r) /\ ~ (k - 1 < m) /\ (k - 1) + 1 = k
      BY <1>1, <1>5, <2>2
    <3>2. r[k - 1] = s[k]
      BY <1>6, <3>1 DEF Was
    <3> QED
      BY <3>1, <3>2
  <2> QED
    BY <1>1, <1>7, <2>1, <2>2
<1> QED
  BY <1>1, <1>5, <1>6, <1>7 DEF r, Without

\* A device that leaves the daemon's list leaves all the others in it.
LEMMA LeavesList ==
    ASSUME NEW S, NEW s \in Seq(S), Injective(s), NEW e, Contains(s, e)
    PROVE  /\ RemoveFirst(s, e) \in Seq(S) /\ Injective(RemoveFirst(s, e))
           /\ \A d : Contains(RemoveFirst(s, e), d) <=> Contains(s, d) /\ d # e
<1> DEFINE I == {i \in 1..Len(s) : s[i] = e}
           m == Min(I)
           r == RemoveFirst(s, e)
<1>1. m \in I
  <2>1. I \in SUBSET Nat /\ I # {}
    BY LenProperties DEF Contains
  <2> HIDE DEF I
  <2> QED
    BY <2>1, HasLeast
<1>2. r = RemoveAt(s, m)
  BY DEF RemoveFirst, SelectInSeq, Contains
<1>3. m \in 1..Len(s) /\ s[m] = e
  BY <1>1
<1> HIDE DEF I, m, r
<1>4. r \in Seq(S) /\ Without(r, s, m)
  BY <1>2, <1>3, TakenOut
<1>5. Injective(r)
  <2>1. ASSUME NEW i \in 1..Len(r), NEW j \in 1..Len(r), r[i] = r[j] PROVE i = j
    <3>1. /\ Was(m, i) \in 1..Len(s) /\ r[i] = s[Was(m, i)]
          /\ Was(m, j) \in 1..Len(s) /\ r[j] = s[Was(m, j)]
      BY <1>4 DEF Without
    <3>2. Was(m, i) = Was(m, j)
      BY <2>1, <3>1 DEF Injective
    <3> QED
      BY <1>4, <3>2 DEF Without
  <2> QED
    BY <2>1 DEF Injective
<1>6. ASSUME NEW d PROVE Contains(r, d) <=> Contains(s, d) /\ d # e
  <2>1. Contains(r, d) => Contains(s, d) /\ d # e
    BY <1>3, <1>4 DEF Contains, Injective, Without
  <2>2. ASSUME Contains(s, d), d # e PROVE Contains(r, d)
    <3>1. PICK i \in 1..Len(s) : s[i] = d
      BY <2>2 DEF Contains
    <3>2. i # m
      BY <1>3, <2>2, <3>1
    <3> QED
      BY <1>4, <3>1, <3>2 DEF Contains, Without
  <2> QED
    BY <2>1, <2>2
<1> QED
  BY <1>4, <1>5, <1>6 DEF r

\* urf_client_device_removed takes one object of the path, if there is one.
LEMMA LeavesClient ==
    ASSUME NEW S, list \in Seq(S), NEW p, device_removed(p)
    PROVE  \/ list' = list /\ ~ Known(p)
           \/ \E m \in 1..Len(list) :
                /\ list[m].path = p
                /\ list' \in Seq(S) /\ Without(list', list, m)
<1> DEFINE I == {i \in 1..Len(list) : list[i].path = p}
<1>1. CASE I = {}
  <2>1. list' = list
    BY <1>1 DEF device_removed, RemoveFirstMatch
  <2> QED
    BY <1>1, <2>1, LenProperties DEF Known
<1>2. CASE I # {}
  <2> DEFINE m == Min(I)
  <2>1. m \in I
    <3>1. I \in SUBSET Nat
      BY LenProperties
    <3> HIDE DEF I
    <3> QED
      BY <1>2, <3>1, HasLeast
  <2>2. list' = RemoveAt(list, m)
    BY <1>2 DEF device_removed, RemoveFirstMatch, SelectInSeq
  <2>3. m \in 1..Len(list) /\ list[m].path = p
    BY <2>1
  <2> HIDE DEF I, m
  <2> QED
    BY <2>2, <2>3, TakenOut
<1> QED
  BY <1>1, <1>2
-----------------------------------------------------------------------------
(* The invariant.                                                          *)

\* A message as the daemon sends it: of a device that has been plugged in, or of the
\* killswitch.
Fit(m, st) ==
    /\ m.signal = "NameOwnerChanged" => m.path = SWITCH
    /\ m.path = SWITCH => /\ m.signal \in {"NameOwnerChanged", "PropertiesChanged"}
                          /\ m.value \in KillswitchState
    /\ m.path \in Devices => m.value \in Nat /\ st[m.path] # 0

\* What the daemon has at a path, and whether it has anything.
Value(p, st, sw) == IF p = SWITCH THEN sw ELSE st[p]
Live(p, devs) == IF p = SWITCH THEN devs # <<>> ELSE Contains(devs, p)

\* Messages after which a state is asked for or told again.
Renews(m, p) ==
    \/ m.signal = "NameOwnerChanged"
    \/ m.signal = "PropertiesChanged" /\ m.path = p
SpeaksOf(q, p) == \E i \in 1..Len(q) : Renews(q[i], p)

\* The daemon: an index is used once, the killswitch has the state of its devices.
DaemonInv ==
    /\ state \in [Devices -> Nat]
    /\ devices \in Seq(Devices) /\ Injective(devices)
    /\ \A d \in Devices : Contains(devices, d) => state[d] # 0
    /\ switch = StateOf(devices, state)
    /\ asked \subseteq Paths

\* The messages: a device that is said to be removed never comes back.
FitQueue(q, devs, st) ==
    /\ q \in Seq(Messages)
    /\ \A i \in 1..Len(q) :
         /\ Fit(q[i], st)
         /\ q[i].signal = "DeviceRemoved" => ~ Contains(devs, q[i].path)

\* The client: an object that could not be read is one of a device that is gone.
ClientInv ==
    /\ list \in Seq(DeviceObject)
    /\ \A i \in 1..Len(list) :
         /\ state[list[i].path] # 0
         /\ list[i].state = Unknown => ~ Contains(devices, list[i].path)
    /\ todo \in Seq(Devices)
    /\ \A i \in 1..Len(todo) : state[todo[i]] # 0
    /\ is_enumerated \in BOOLEAN
    /\ killswitch \in [state : KillswitchState \cup {Unknown}, skip : Nat]

\* A change that waits tells of the present, or another word on its path follows.
LastCurrent(q, devs, st, sw) ==
    \A k \in 1..Len(q) :
        q[k].signal = "PropertiesChanged" /\ Live(q[k].path, devs) =>
            \/ q[k].value = Value(q[k].path, st, sw)
            \/ \E n \in 1..Len(q) : n > k /\ Renews(q[n], q[k].path)

\* An object of path p that shows v and misses the next skip changes has the state
\* of the daemon, or will be told of it.
Follows(p, v, skip, q, devs, st, sw, ask) ==
    /\ skip <= Cardinality(Changes(q, p))
    /\ v # Unknown /\ Live(p, devs) =>
         \/ \E i \in 1..Len(q) : q[i].signal = "NameOwnerChanged"
         \/ p \in ask
         \/ v = Value(p, st, sw)
         \/ skip < Cardinality(Changes(q, p))

AllFollow ==
    /\ \A i \in 1..Len(list) :
         Follows(list[i].path, list[i].state, list[i].skip,
                 queue, devices, state, switch, asked)
    /\ Follows(SWITCH, killswitch.state, killswitch.skip,
               queue, devices, state, switch, asked)

\* A device of the daemon is in the list, in the reply to EnumerateDevices, or about
\* to be announced.
Sent(q, signal, p, i) ==
    \E j \in 1..Len(q) : j > i /\ q[j].signal = signal /\ q[j].path = p

NoneMissed ==
    is_enumerated \/ todo # <<>> =>
        \A d \in Devices : Contains(devices, d) =>
            Known(d) \/ Contains(todo, d) \/ Sent(queue, "DeviceAdded", d, 0)

SyncInv ==
    /\ DaemonInv
    /\ ClientInv
    /\ FitQueue(queue, devices, state)
    /\ LastCurrent(queue, devices, state, switch)
    /\ AllFollow
    /\ NoneMissed

-----------------------------------------------------------------------------
(* What is sent and what is read.                                          *)

LEMMA Constants ==
    /\ SWITCH \notin Devices /\ IsFiniteSet(Devices)
    /\ Unknown \notin Nat /\ Unknown \notin KillswitchState
    /\ KillswitchState \subseteq Int /\ UNBLOCKED \in KillswitchState
BY ClientAssumption DEF SWITCH, Unknown, KillswitchState, NO_ADAPTER, UNBLOCKED, SOFT_BLOCKED,
   HARD_BLOCKED

\* A message more is a change more, if it is one.
LEMMA CountJoined ==
    ASSUME NEW q \in Seq(Messages), NEW ms \in Seq(Messages), NEW p
    PROVE  LET old == Cardinality(Changes(q, p))
               new == Cardinality(Changes(q \o ms, p))
           IN  /\ old \in Nat /\ new \in Nat /\ old <= new
               /\ Changes(ms, p) # {} => old < new
<1> DEFINE r == q \o ms
<1>1. r \in Seq(Messages) /\ Joins(r, q, ms)
  BY Joined
<1> HIDE DEF r
<1>2. Changes(q, p) \subseteq Changes(r, p)
  BY <1>1 DEF Changes, Joins
<1>3. /\ IsFiniteSet(Changes(r, p)) /\ Cardinality(Changes(r, p)) \in Nat
      /\ IsFiniteSet(Changes(q, p)) /\ Cardinality(Changes(q, p)) \in Nat
  BY <1>1, Counts DEF Joins
<1>4. Cardinality(Changes(q, p)) <= Cardinality(Changes(r, p))
  BY <1>2, <1>3, FS_Subset
<1>5. ASSUME Changes(ms, p) # {} PROVE Cardinality(Changes(q, p)) < Cardinality(Changes(r, p))
  <2>1. PICK j \in 1..Len(ms) : ms[j].signal = "PropertiesChanged" /\ ms[j].path = p
    BY <1>5 DEF Changes
  <2>2. /\ Len(q) \in Nat /\ Len(ms) \in Nat
        /\ Len(q) + j \in 1..Len(r) /\ r[Len(q) + j] = ms[j]
    BY <1>1 DEF Joins
  <2>3. Len(q) + j \in Changes(r, p)
    BY <2>1, <2>2 DEF Changes
  <2>4. Len(q) + j \notin Changes(q, p)
    BY <2>2 DEF Changes
  <2> QED
    BY <1>2, <1>3, <1>4, <2>3, <2>4, FS_Subset
<1> QED
  BY <1>3, <1>4, <1>5 DEF r

\* A message that is read is a change less, if it was one.
LEMMA CountRest ==
    ASSUME NEW q \in Seq(Messages), q # <<>>, NEW p
    PROVE  LET old == Cardinality(Changes(q, p))
               new == Cardinality(Changes(Tail(q), p))
           IN  /\ old \in Nat /\ new \in Nat
               /\ old = IF q[1].signal = "PropertiesChanged" /\ q[1].path = p
                        THEN new + 1 ELSE new
<1> DEFINE t == Tail(q)
<1>1. /\ t \in Seq(Messages) /\ Len(t) = Len(q) - 1 /\ Len(q) \in Nat \ {0}
      /\ \A i \in 1..Len(t) : t[i] = q[i + 1] /\ i + 1 \in 1..Len(q)
  BY Rest
<1> HIDE DEF t
<1>2. /\ IsFiniteSet(Changes(q, p)) /\ Cardinality(Changes(q, p)) \in Nat
      /\ Cardinality(Changes(t, p)) \in Nat
  BY <1>1, Counts
<1>3. Changes(q, p) \in SUBSET (Nat \ {0}) /\ Changes(t, p) \in SUBSET (Nat \ {0})
  BY <1>1 DEF Changes
<1>4. \A j \in Nat \ {0} : j \in Changes(t, p) <=> j + 1 \in Changes(q, p)
  BY <1>1 DEF Changes
<1>5. 1 \in Changes(q, p) <=> q[1].signal = "PropertiesChanged" /\ q[1].path = p
  BY <1>1 DEF Changes
<1> QED
  BY <1>2, <1>3, <1>4, <1>5, Shift DEF t

\* The state of the killswitch is a state, and NO_ADAPTER only without a device.
LEMMA SwitchState ==
    ASSUME NEW st, NEW S, NEW devs \in Seq(S)
    PROVE  /\ StateOf(devs, st) \in KillswitchState
           /\ StateOf(devs, st) = NO_ADAPTER <=> devs = <<>>
<1> DEFINE B == {event_to_state(st[d] % 2 = 1, FALSE) : d \in Range(devs)}
           M == B \cup {NO_ADAPTER}
<1>1. B \subseteq {0, 1} /\ M = B \cup {-1}
  BY DEF event_to_state, NO_ADAPTER, SOFT_BLOCKED, UNBLOCKED
<1>2. StateOf(devs, st) = Max(M)
  BY DEF StateOf, KillswitchStateOf, MostBlocked
<1>3. B = {} <=> devs = <<>>
  <2>1. CASE devs = <<>>
    <3>1. Range(devs) = {}
      BY <2>1 DEF Range
    <3> QED
      BY <2>1, <3>1
  <2>2. CASE devs # <<>>
    <3>1. 1 \in DOMAIN devs
      BY <2>2, EmptySeq, LenProperties
    <3>2. devs[1] \in Range(devs)
      BY <3>1 DEF Range
    <3>3. event_to_state(st[devs[1]] % 2 = 1, FALSE) \in B
      BY <3>2
    <3> QED
      BY <2>2, <3>3
  <2> QED
    BY <2>1, <2>2
<1> HIDE DEF B, M
<1>4. Max(M) \in M /\ \A y \in M : Max(M) >= y
  <2>1. \E x \in M : \A y \in M : x >= y
    BY <1>1
  <2> QED
    BY <2>1 DEF Max
<1>5. Max(M) = -1 <=> B = {}
  <2>1. ASSUME NEW b \in B PROVE Max(M) # -1
    <3>1. b \in {0, 1} /\ Max(M) >= b /\ Max(M) \in {-1, 0, 1}
      BY <1>1, <1>4
    <3> QED
      BY <3>1
  <2>2. B = {} => Max(M) = -1
    BY <1>1, <1>4
  <2> QED
    BY <2>1, <2>2
<1> QED
  BY <1>1, <1>2, <1>3, <1>4, <1>5
     DEF KillswitchState, NO_ADAPTER, UNBLOCKED, SOFT_BLOCKED, HARD_BLOCKED
-----------------------------------------------------------------------------
(* A step of the daemon: it sends ms and the client does nothing.          *)

Report(ms) ==
    /\ ms \in Seq(Messages) /\ queue' = queue \o ms /\ UNCHANGED clientVars
    /\ DaemonInv'
    /\ \A d \in Devices : state[d] # 0 => state'[d] # 0
    /\ \A d \in Devices : Contains(devices', d) /\ ~ Contains(devices, d) =>
         state[d] = 0 /\ Sent(ms, "DeviceAdded", d, 0)
    /\ FitQueue(ms, devices', state')
    /\ LastCurrent(ms, devices', state', switch')
    /\ \A p \in Paths : Live(p, devices') =>
         \/ SpeaksOf(ms, p)
         \/ p \in Devices /\ state[p] = 0
         \/ /\ Live(p, devices)
            /\ Value(p, state', switch') = Value(p, state, switch)
            /\ p \in asked => p \in asked'

LEMMA ReportFits ==
    ASSUME SyncInv, NEW ms, Report(ms)
    PROVE  FitQueue(queue', devices', state') /\ ClientInv'
<1>1. /\ queue \in Seq(Messages) /\ FitQueue(queue, devices, state)
      /\ ms \in Seq(Messages) /\ FitQueue(ms, devices', state')
      /\ queue' = queue \o ms /\ UNCHANGED <<list, todo, is_enumerated, killswitch>>
  BY DEF SyncInv, FitQueue, Report, clientVars
<1>2. queue' \in Seq(Messages) /\ Joins(queue', queue, ms)
  BY <1>1, Joined
<1>3. \A d \in Devices : /\ state[d] # 0 => state'[d] # 0
                         /\ state[d] # 0 /\ ~ Contains(devices, d) => ~ Contains(devices', d)
  BY DEF Report
<1>4. ASSUME NEW i \in 1..Len(queue')
      PROVE  /\ Fit(queue'[i], state')
             /\ queue'[i].signal = "DeviceRemoved" => ~ Contains(devices', queue'[i].path)
  <2>1. CASE i \in 1..Len(queue)
    <3>1. /\ Fit(queue[i], state) /\ queue'[i] = queue[i] /\ queue[i] \in Messages
          /\ queue[i].signal = "DeviceRemoved" => ~ Contains(devices, queue[i].path)
      BY <1>1, <1>2, <2>1, ElementOfSeq DEF FitQueue, Joins
    <3>2. queue[i].signal = "DeviceRemoved" => queue[i].path \in Devices
      BY <3>1 DEF Fit, Messages, Paths
    <3> QED
      BY <1>3, <3>1, <3>2 DEF Fit
  <2>2. CASE \E j \in 1..Len(ms) : i = Len(queue) + j
    <3>1. PICK j \in 1..Len(ms) : i = Len(queue) + j
      BY <2>2
    <3>2. queue'[i] = ms[j]
      BY <1>2, <3>1 DEF Joins
    <3> QED
      BY <1>1, <3>2 DEF FitQueue
  <2> QED
    BY <1>2, <2>1, <2>2 DEF Joins
<1>5. FitQueue(queue', devices', state')
  BY <1>2, <1>4 DEF FitQueue, Joins
<1>6. ClientInv'
  <2>1. ClientInv
    BY DEF SyncInv
  <2>2. \A i \in 1..Len(list) : list[i].path \in Devices
    <3>1. \A i \in 1..Len(list) : list[i] \in DeviceObject
      BY <2>1, ElementOfSeq DEF ClientInv
    <3> QED
      BY <3>1 DEF DeviceObject
  <2>3. \A i \in 1..Len(todo) : todo[i] \in Devices
    BY <2>1, ElementOfSeq DEF ClientInv
  <2> QED
    BY <1>1, <1>3, <2>1, <2>2, <2>3 DEF ClientInv
<1> QED
  BY <1>5, <1>6

\* Of what waited and what is sent, each speaks of the present or is followed.
LEMMA JoinCurrent ==
    ASSUME NEW q \in Seq(Messages), NEW ms \in Seq(Messages),
           NEW devs, NEW st, NEW sw, NEW devs2, NEW st2, NEW sw2,
           LastCurrent(q, devs, st, sw), LastCurrent(ms, devs2, st2, sw2),
           \A k \in 1..Len(q) :
               q[k].signal = "PropertiesChanged" /\ Live(q[k].path, devs2) =>
                   \/ SpeaksOf(ms, q[k].path)
                   \/ /\ Live(q[k].path, devs)
                      /\ Value(q[k].path, st2, sw2) = Value(q[k].path, st, sw)
    PROVE  LastCurrent(q \o ms, devs2, st2, sw2)
<1> DEFINE r == q \o ms
<1>1. Joins(r, q, ms)
  BY Joined
<1> HIDE DEF r
<1> SUFFICES ASSUME NEW k \in 1..Len(r), r[k].signal = "PropertiesChanged",
                    Live(r[k].path, devs2), r[k].value # Value(r[k].path, st2, sw2)
             PROVE  \E n \in 1..Len(r) : n > k /\ Renews(r[n], r[k].path)
  BY DEF LastCurrent, r
<1>2. CASE \E j \in 1..Len(ms) : k = Len(q) + j
  <2>1. PICK j \in 1..Len(ms) : k = Len(q) + j
    BY <1>2
  <2>2. r[k] = ms[j]
    BY <1>1, <2>1 DEF Joins
  <2>3. PICK n \in 1..Len(ms) : n > j /\ Renews(ms[n], ms[j].path)
    BY <2>2 DEF LastCurrent
  <2>4. Len(q) + n \in 1..Len(r) /\ Len(q) + n > k /\ r[Len(q) + n] = ms[n]
    BY <1>1, <2>1, <2>3 DEF Joins
  <2> QED
    BY <2>2, <2>3, <2>4
<1>3. CASE k \in 1..Len(q)
  <2>1. r[k] = q[k]
    BY <1>1, <1>3 DEF Joins
  <2>2. CASE SpeaksOf(ms, q[k].path)
    <3>1. PICK j \in 1..Len(ms) : Renews(ms[j], q[k].path)
      BY <2>2 DEF SpeaksOf
    <3>2. Len(q) + j \in 1..Len(r) /\ Len(q) + j > k /\ r[Len(q) + j] = ms[j]
      BY <1>1, <1>3 DEF Joins
    <3> QED
      BY <2>1, <3>1, <3>2
  <2>3. CASE /\ Live(q[k].path, devs)
             /\ Value(q[k].path, st2, sw2) = Value(q[k].path, st, sw)
    <3>1. PICK n \in 1..Len(q) : n > k /\ Renews(q[n], q[k].path)
      BY <1>3, <2>1, <2>3 DEF LastCurrent
    <3> QED
      BY <1>1, <2>1, <3>1 DEF Joins
  <2> QED
    BY <1>3, <2>1, <2>2, <2>3
<1> QED
  BY <1>1, <1>2, <1>3 DEF Joins

LEMMA ReportCurrent ==
    ASSUME SyncInv, NEW ms, Report(ms)
    PROVE  LastCurrent(queue', devices', state', switch')
<1>1. /\ queue \in Seq(Messages) /\ FitQueue(queue, devices, state)
      /\ LastCurrent(queue, devices, state, switch)
      /\ ms \in Seq(Messages) /\ LastCurrent(ms, devices', state', switch')
      /\ queue' = queue \o ms
  BY DEF SyncInv, FitQueue, Report
<1>2. ASSUME NEW k \in 1..Len(queue), Live(queue[k].path, devices')
      PROVE  \/ SpeaksOf(ms, queue[k].path)
             \/ /\ Live(queue[k].path, devices)
                /\ Value(queue[k].path, state', switch') = Value(queue[k].path, state, switch)
  <2>1. queue[k] \in Messages /\ Fit(queue[k], state)
    BY <1>1, ElementOfSeq DEF FitQueue
  <2>2. /\ queue[k].path \in Paths
        /\ queue[k].path \in Devices => state[queue[k].path] # 0
    BY <2>1 DEF Messages, Fit
  <2> QED
    BY <1>2, <2>2 DEF Report
<1> QED
  BY <1>1, <1>2, JoinCurrent

LEMMA ReportFollowed ==
    ASSUME SyncInv, NEW ms, Report(ms), NEW p \in Paths, NEW v, NEW skip \in Nat,
           p \in Devices => state[p] # 0,
           Follows(p, v, skip, queue, devices, state, switch, asked)
    PROVE  Follows(p, v, skip, queue', devices', state', switch', asked')
<1>1. queue \in Seq(Messages) /\ ms \in Seq(Messages) /\ queue' = queue \o ms
  BY DEF SyncInv, FitQueue, Report
<1>2. queue' \in Seq(Messages) /\ Joins(queue', queue, ms)
  BY <1>1, Joined
<1> DEFINE old == Cardinality(Changes(queue, p))
           new == Cardinality(Changes(queue', p))
<1>3. /\ old \in Nat /\ new \in Nat /\ old <= new
      /\ Changes(ms, p) # {} => old < new
  BY <1>1, CountJoined
<1>4. /\ skip <= old
      /\ v # Unknown /\ Live(p, devices) =>
           \/ \E i \in 1..Len(queue) : queue[i].signal = "NameOwnerChanged"
           \/ p \in asked
           \/ v = Value(p, state, switch)
           \/ skip < old
  BY DEF Follows
<1> HIDE DEF old, new
<1>5. skip <= new
  BY <1>3, <1>4
<1>6. ASSUME v # Unknown, Live(p, devices')
      PROVE  \/ \E i \in 1..Len(queue') : queue'[i].signal = "NameOwnerChanged"
             \/ p \in asked'
             \/ v = Value(p, state', switch')
             \/ skip < new
  <2>1. CASE SpeaksOf(ms, p)
    <3>1. PICK j \in 1..Len(ms) : Renews(ms[j], p)
      BY <2>1 DEF SpeaksOf
    <3>2. CASE ms[j].signal = "NameOwnerChanged"
      BY <1>2, <3>2 DEF Joins
    <3>3. CASE ms[j].signal = "PropertiesChanged" /\ ms[j].path = p
      <4>1. Changes(ms, p) # {}
        BY <3>3 DEF Changes
      <4> QED
        BY <1>3, <1>4, <4>1
    <3> QED
      BY <3>1, <3>2, <3>3 DEF Renews
  <2>2. CASE /\ Live(p, devices)
             /\ Value(p, state', switch') = Value(p, state, switch)
             /\ p \in asked => p \in asked'
    <3>1. CASE \E i \in 1..Len(queue) : queue[i].signal = "NameOwnerChanged"
      BY <1>2, <3>1 DEF Joins
    <3>2. CASE p \in asked \/ v = Value(p, state, switch)
      BY <2>2, <3>2
    <3>3. CASE skip < old
      BY <1>3, <3>3
    <3> QED
      BY <1>4, <1>6, <2>2, <3>1, <3>2, <3>3
  <2> QED
    BY <1>6, <2>1, <2>2 DEF Report
<1> QED
  BY <1>5, <1>6 DEF Follows, new

LEMMA ReportKeeps ==
    ASSUME SyncInv, NEW ms, Report(ms)
    PROVE  SyncInv'
<1> USE Constants
<1>1. /\ FitQueue(queue', devices', state') /\ ClientInv'
      /\ LastCurrent(queue', devices', state', switch')
      /\ DaemonInv'
  BY ReportFits, ReportCurrent DEF Report
<1>2. /\ UNCHANGED <<list, todo, is_enumerated, killswitch>>
      /\ AllFollow /\ NoneMissed
      /\ ClientInv /\ queue \in Seq(Messages) /\ ms \in Seq(Messages) /\ queue' = queue \o ms
  BY DEF Report, clientVars, SyncInv, FitQueue
<1>3. AllFollow'
  <2>1. ASSUME NEW i \in 1..Len(list)
        PROVE  Follows(list[i].path, list[i].state, list[i].skip,
                       queue', devices', state', switch', asked')
    <3>1. list[i] \in DeviceObject /\ state[list[i].path] # 0
      BY <1>2, ElementOfSeq DEF ClientInv
    <3>2. list[i].path \in Devices /\ list[i].skip \in Nat
      BY <3>1 DEF DeviceObject
    <3> QED
      BY <1>2, <3>1, <3>2, ReportFollowed DEF AllFollow, Paths
  <2>2. Follows(SWITCH, killswitch.state, killswitch.skip,
                queue', devices', state', switch', asked')
    <3>1. killswitch.skip \in Nat
      BY <1>2 DEF ClientInv
    <3> QED
      BY <1>2, <3>1, ReportFollowed DEF AllFollow, Paths
  <2> QED
    BY <1>2, <2>1, <2>2 DEF AllFollow
<1>4. NoneMissed'
  <2>1. Joins(queue', queue, ms)
    BY <1>2, Joined
  <2>2. ASSUME NEW d, Sent(queue, "DeviceAdded", d, 0) PROVE Sent(queue', "DeviceAdded", d, 0)
    BY <2>1, <2>2 DEF Sent, Joins
  <2>3. ASSUME NEW d, Sent(ms, "DeviceAdded", d, 0) PROVE Sent(queue', "DeviceAdded", d, 0)
    <3>1. PICK j \in 1..Len(ms) : ms[j].signal = "DeviceAdded" /\ ms[j].path = d
      BY <2>3 DEF Sent
    <3>2. Len(queue) + j \in 1..Len(queue') /\ Len(queue) + j > 0 /\ queue'[Len(queue) + j] = ms[j]
      BY <2>1 DEF Joins
    <3> QED
      BY <3>1, <3>2 DEF Sent
  <2> QED
    BY <1>2, <2>2, <2>3 DEF NoneMissed, Report, Known
<1> QED
  BY <1>1, <1>3, <1>4 DEF SyncInv
-----------------------------------------------------------------------------
(* What the daemon sends while it runs.                                    *)

\* While the daemon is the same, a device that goes is said to be removed, and one
\* that is announced is there.
Orderly(ms) ==
    /\ \A d \in Devices :
         Contains(devices, d) /\ ~ Contains(devices', d) => Sent(ms, "DeviceRemoved", d, 0)
    /\ \A i \in 1..Len(ms) : ms[i].signal = "DeviceAdded" => Contains(devices', ms[i].path)

\* ms is what the daemon sends when the killswitch speaks first, if its state is
\* another, and the devices then send b.
Telling(ms, devs, st, old, b) ==
    /\ ms \in Seq(Messages) /\ FitQueue(ms, devs, st)
    /\ LastCurrent(ms, devs, st, StateOf(devs, st))
    /\ Live(SWITCH, devs) => SpeaksOf(ms, SWITCH) \/ StateOf(devs, st) = old
    /\ \A p : SpeaksOf(b, p) => SpeaksOf(ms, p)
    /\ \A s, p : Sent(b, s, p, 0) => Sent(ms, s, p, 0)
    /\ \A i \in 1..Len(ms) : \/ ms[i].signal = "PropertiesChanged" /\ ms[i].path = SWITCH
                             \/ \E j \in 1..Len(b) : ms[i] = b[j]

\* The devices speak of what they are now.
Present(b, devs, st) ==
    /\ b \in Seq(Messages) /\ FitQueue(b, devs, st)
    /\ \A k \in 1..Len(b) : b[k].signal = "PropertiesChanged" =>
                               b[k].path \in Devices /\ b[k].value = st[b[k].path]

LEMMA Announced ==
    ASSUME NEW devs \in Seq(Devices), NEW st \in [Devices -> Nat], NEW old,
           NEW b, Present(b, devs, st)
    PROVE  /\ Refreshed(devs, st, old) \in Seq(Messages)
           /\ Telling(Refreshed(devs, st, old) \o b, devs, st, old, b)
<1> DEFINE sw == StateOf(devs, st)
           m == Message("PropertiesChanged", SWITCH, sw)
           r == Refreshed(devs, st, old)
           ms == r \o b
<1> USE Constants DEF Present
<1>1. sw \in KillswitchState
  BY SwitchState
<1>2. /\ m \in Messages /\ Fit(m, st)
      /\ m.signal = "PropertiesChanged" /\ m.path = SWITCH /\ m.value = sw
  BY <1>1 DEF Message, Messages, Signals, Paths, Fit
<1>3. /\ r = <<>> \/ r = <<m>>
      /\ devs # <<>> => r = <<m>> \/ sw = old
  BY DEF Refreshed
<1> HIDE DEF sw, m, r, ms
<1>4. /\ r \in Seq(Messages) /\ Len(r) \in {0, 1} /\ \A k \in 1..Len(r) : r[k] = m
      /\ devs # <<>> => sw = old \/ Len(r) = 1
  <2>1. CASE r = <<>>
    BY <1>3, <2>1, EmptySeq
  <2>2. CASE r = <<m>>
    BY <1>2, <2>2
  <2> QED
    BY <1>3, <2>1, <2>2
<1>5. ms \in Seq(Messages) /\ Joins(ms, r, b)
  BY <1>4, Joined DEF ms
<1>6. ASSUME NEW i \in 1..Len(ms) PROVE ms[i] = m \/ \E j \in 1..Len(b) : ms[i] = b[j]
  <2>1. CASE i \in 1..Len(r)
    BY <1>4, <1>5, <2>1 DEF Joins
  <2>2. CASE \E j \in 1..Len(b) : i = Len(r) + j
    BY <1>5, <2>2 DEF Joins
  <2> QED
    BY <1>5, <2>1, <2>2 DEF Joins
<1>7. FitQueue(ms, devs, st)
  <2>1. ASSUME NEW i \in 1..Len(ms)
        PROVE  /\ Fit(ms[i], st)
               /\ ms[i].signal = "DeviceRemoved" => ~ Contains(devs, ms[i].path)
    BY <1>2, <1>6 DEF FitQueue
  <2> QED
    BY <1>5, <2>1 DEF FitQueue
<1>8. LastCurrent(ms, devs, st, sw)
  <2> SUFFICES ASSUME NEW k \in 1..Len(ms), ms[k].signal = "PropertiesChanged"
               PROVE  ms[k].value = Value(ms[k].path, st, sw)
    BY DEF LastCurrent
  <2> QED
    BY <1>2, <1>6 DEF Value
<1>9. Live(SWITCH, devs) => SpeaksOf(ms, SWITCH) \/ sw = old
  <2>1. ASSUME Len(r) = 1 PROVE SpeaksOf(ms, SWITCH)
    <3>1. 1 \in 1..Len(ms) /\ ms[1] = m
      BY <1>4, <1>5, <2>1 DEF Joins
    <3> QED
      BY <1>2, <3>1 DEF SpeaksOf, Renews
  <2> QED
    BY <1>4, <2>1 DEF Live
<1>10. ASSUME NEW p, SpeaksOf(b, p) PROVE SpeaksOf(ms, p)
  BY <1>5, <1>10 DEF SpeaksOf, Joins
<1>11. ASSUME NEW s, NEW p, Sent(b, s, p, 0) PROVE Sent(ms, s, p, 0)
  <2>1. PICK j \in 1..Len(b) : b[j].signal = s /\ b[j].path = p
    BY <1>11 DEF Sent
  <2>2. Len(r) + j \in 1..Len(ms) /\ ms[Len(r) + j] = b[j] /\ Len(r) + j > 0
    BY <1>4, <1>5 DEF Joins
  <2> QED
    BY <2>1, <2>2 DEF Sent
<1> QED
  <2>1. Telling(ms, devs, st, old, b)
    BY <1>2, <1>5, <1>6, <1>7, <1>8, <1>9, <1>10, <1>11 DEF Telling, sw
  <2> QED
    BY <1>4, <2>1 DEF ms, r

\* A signal of one device.
LEMMA OfDevice ==
    ASSUME NEW d \in Devices, NEW v \in Nat, NEW st, st[d] # 0,
           NEW signal \in Signals \ {"NameOwnerChanged"}
    PROVE  LET m == Message(signal, d, v) IN
           m \in Messages /\ Fit(m, st) /\ m.signal = signal /\ m.path = d /\ m.value = v
BY Constants DEF Message, Messages, Paths, Fit

LEMMA PlugReports ==
    ASSUME SyncInv, NEW d \in Devices, Plug(d), UNCHANGED <<asked, clientVars>>
    PROVE  \E ms : Report(ms) /\ Orderly(ms)
<1> USE Constants
<1>1. DaemonInv /\ queue \in Seq(Messages)
  BY DEF SyncInv, FitQueue
<1>2. PICK v \in {1, 2} :
           /\ state' = [state EXCEPT ![d] = v]
           /\ queue' = queue \o device_added_cb(d, devices, state', switch)
  BY DEF Plug
<1>3. /\ ~ Contains(devices, d) /\ state[d] = 0
      /\ devices' = Append(devices, d) /\ switch' = StateOf(devices', state')
  BY DEF Plug
<1>4. /\ state' \in [Devices -> Nat] /\ state'[d] \in Nat \ {0}
      /\ \A e \in Devices : e # d => state'[e] = state[e]
  BY <1>1, <1>2 DEF DaemonInv
<1>5. /\ devices' \in Seq(Devices) /\ Injective(devices')
      /\ \A e : Contains(devices', e) <=> Contains(devices, e) \/ e = d
  <2>1. /\ devices' \in Seq(Devices) /\ Len(devices') = Len(devices) + 1 /\ Len(devices) \in Nat
        /\ \A i \in 1..Len(devices) : devices'[i] = devices[i]
        /\ devices'[Len(devices) + 1] = d
    BY <1>1, <1>3, AppendProperties, LenProperties DEF DaemonInv
  <2> QED
    BY <1>1, <1>3, <2>1 DEF DaemonInv, Injective, Contains
<1> DEFINE m == Message("DeviceAdded", d, state'[d])
           ms == Refreshed(devices', state', switch) \o <<m>>
<1>6. m \in Messages /\ Fit(m, state') /\ m.signal = "DeviceAdded" /\ m.path = d
  BY <1>4, OfDevice DEF Signals
<1>7. queue' = queue \o ms
  BY <1>2, <1>3 DEF device_added_cb
<1> HIDE DEF m
<1>8. /\ <<m>> \in Seq(Messages) /\ Len(<<m>>) = 1 /\ <<m>>[1] = m
      /\ FitQueue(<<m>>, devices', state') /\ Sent(<<m>>, "DeviceAdded", d, 0)
  BY <1>6 DEF FitQueue, Sent
<1> HIDE DEF ms
<1>9. /\ ms \in Seq(Messages) /\ FitQueue(ms, devices', state')
      /\ LastCurrent(ms, devices', state', switch')
      /\ Live(SWITCH, devices') => SpeaksOf(ms, SWITCH) \/ switch' = switch
      /\ Sent(ms, "DeviceAdded", d, 0)
      /\ \A i \in 1..Len(ms) : ms[i].signal # "PropertiesChanged" => ms[i] = m
  <2>1. \A k \in 1..Len(<<m>>) : <<m>>[k].signal # "PropertiesChanged" /\ <<m>>[k] = m
    BY <1>6, <1>8
  <2>2. Present(<<m>>, devices', state')
    BY <1>6, <1>8, <2>1 DEF Present
  <2>3. Telling(ms, devices', state', switch, <<m>>)
    BY <1>4, <1>5, <2>2, Announced DEF ms
  <2> QED
    BY <1>3, <1>8, <2>1, <2>3 DEF Telling
<1>10. DaemonInv'
  BY <1>1, <1>3, <1>4, <1>5 DEF DaemonInv
<1>11. ASSUME NEW p \in Paths, Live(p, devices')
       PROVE  \/ SpeaksOf(ms, p)
              \/ p \in Devices /\ state[p] = 0
              \/ Live(p, devices) /\ Value(p, state', switch') = Value(p, state, switch)
  <2>1. CASE p = SWITCH
    <3>1. devices = <<>> => switch = NO_ADAPTER /\ switch' # NO_ADAPTER
      <4>1. devices' # <<>>
        BY <1>11, <2>1 DEF Live
      <4> QED
        <5>1. StateOf(devices', state') # NO_ADAPTER
          BY <1>5, <4>1, SwitchState
        <5>2. devices = <<>> => StateOf(devices, state) = NO_ADAPTER
          BY <1>1, SwitchState DEF DaemonInv
        <5> QED
          BY <1>1, <1>3, <5>1, <5>2 DEF DaemonInv
    <3> QED
      BY <1>9, <1>11, <2>1, <3>1 DEF Live, Value
  <2>2. CASE p \in Devices
    BY <1>3, <1>4, <1>5, <1>11, <2>2 DEF Live, Value
  <2> QED
    BY <2>1, <2>2 DEF Paths
<1>12. Report(ms)
  BY <1>3, <1>4, <1>5, <1>7, <1>9, <1>10, <1>11 DEF Report
<1>13. Orderly(ms)
  BY <1>5, <1>6, <1>9 DEF Orderly
<1> QED
  BY <1>12, <1>13

LEMMA ChangedReports ==
    ASSUME SyncInv, NEW d \in Devices, device_changed_cb(d), UNCHANGED <<asked, clientVars>>
    PROVE  \E ms : Report(ms) /\ Orderly(ms)
<1> USE Constants
<1>1. DaemonInv /\ queue \in Seq(Messages)
  BY DEF SyncInv, FitQueue
<1>2. /\ Contains(devices, d) /\ UNCHANGED devices
      /\ state' = [state EXCEPT ![d] = state[d] + 1] /\ switch' = StateOf(devices, state')
  BY DEF device_changed_cb
<1>3. /\ state' \in [Devices -> Nat] /\ state'[d] \in Nat \ {0}
      /\ \A e \in Devices : e # d => state'[e] = state[e]
  BY <1>1, <1>2 DEF DaemonInv
<1> DEFINE a == Message("PropertiesChanged", d, state'[d])
           c == Message("DeviceChanged", d, state'[d])
           r == Refreshed(devices, state', switch)
           ms == r \o <<a, c>>
<1>4. /\ a \in Messages /\ Fit(a, state') /\ a.signal = "PropertiesChanged"
      /\ a.path = d /\ a.value = state'[d]
      /\ c \in Messages /\ Fit(c, state') /\ c.signal = "DeviceChanged" /\ c.path = d
  BY <1>3, OfDevice DEF Signals
<1>5. queue' = queue \o r \o <<a, c>>
  BY DEF device_changed_cb
<1> HIDE DEF a, c
<1>6. /\ <<a, c>> \in Seq(Messages) /\ Len(<<a, c>>) = 2
      /\ <<a, c>>[1] = a /\ <<a, c>>[2] = c
      /\ \A k \in 1..2 : k = 1 \/ k = 2
  BY <1>4
<1>7. /\ FitQueue(<<a, c>>, devices, state')
      /\ SpeaksOf(<<a, c>>, d)
      /\ \A k \in 1..Len(<<a, c>>) : <<a, c>>[k].signal = "PropertiesChanged" =>
           <<a, c>>[k].path \in Devices /\ <<a, c>>[k].value = state'[<<a, c>>[k].path]
      /\ \A k \in 1..Len(<<a, c>>) : <<a, c>>[k].signal # "DeviceAdded"
  BY <1>4, <1>6 DEF FitQueue, SpeaksOf, Renews
<1> HIDE DEF ms
<1>8. /\ r \in Seq(Messages) /\ ms \in Seq(Messages) /\ FitQueue(ms, devices, state')
      /\ LastCurrent(ms, devices, state', switch')
      /\ Live(SWITCH, devices) => SpeaksOf(ms, SWITCH) \/ switch' = switch
      /\ SpeaksOf(ms, d)
      /\ \A i \in 1..Len(ms) : ms[i].signal # "DeviceAdded"
  <2>1. Present(<<a, c>>, devices, state')
    BY <1>6, <1>7 DEF Present
  <2>2. devices \in Seq(Devices)
    BY <1>1 DEF DaemonInv
  <2>3. r \in Seq(Messages) /\ Telling(ms, devices, state', switch, <<a, c>>)
    BY <1>3, <2>1, <2>2, Announced DEF ms
  <2> HIDE DEF r
  <2>4. \A i \in 1..Len(ms) : ms[i].signal # "DeviceAdded"
    BY <1>7, <2>3 DEF Telling
  <2> QED
    BY <1>2, <1>7, <2>3, <2>4 DEF Telling
<1>9. queue' = queue \o ms
  <2> HIDE DEF r
  <2> QED
    BY <1>1, <1>5, <1>6, <1>8, ConcatAssociative DEF ms
<1>10. DaemonInv'
  BY <1>1, <1>2, <1>3 DEF DaemonInv
<1>11. ASSUME NEW p \in Paths, Live(p, devices')
       PROVE  \/ SpeaksOf(ms, p)
              \/ p \in Devices /\ state[p] = 0
              \/ Live(p, devices) /\ Value(p, state', switch') = Value(p, state, switch)
  BY <1>2, <1>3, <1>8, <1>11 DEF Live, Value, Paths
<1>12. Report(ms)
  BY <1>2, <1>3, <1>8, <1>9, <1>10, <1>11 DEF Report
<1>13. Orderly(ms)
  BY <1>2, <1>8 DEF Orderly
<1> QED
  BY <1>12, <1>13

LEMMA RemovedReports ==
    ASSUME SyncInv, NEW d \in Devices, device_removed_cb(d), UNCHANGED <<asked, clientVars>>
    PROVE  \E ms : Report(ms) /\ Orderly(ms)
<1> USE Constants
<1>1. DaemonInv /\ queue \in Seq(Messages)
  BY DEF SyncInv, FitQueue
<1>2. /\ Contains(devices, d) /\ UNCHANGED state
      /\ devices' = RemoveFirst(devices, d) /\ switch' = StateOf(devices', state)
  BY DEF device_removed_cb
<1>3. /\ devices' \in Seq(Devices) /\ Injective(devices')
      /\ \A e : Contains(devices', e) <=> Contains(devices, e) /\ e # d
  BY <1>1, <1>2, LeavesList DEF DaemonInv
<1>4. state \in [Devices -> Nat] /\ state[d] \in Nat \ {0}
  BY <1>1, <1>2 DEF DaemonInv
<1> DEFINE m == Message("DeviceRemoved", d, state[d])
           r == Refreshed(devices', state, switch)
           ms == r \o <<m>>
<1>5. m \in Messages /\ Fit(m, state) /\ m.signal = "DeviceRemoved" /\ m.path = d
  BY <1>4, OfDevice DEF Signals
<1>6. queue' = queue \o r \o <<m>>
  BY DEF device_removed_cb
<1> HIDE DEF m
<1>7. /\ <<m>> \in Seq(Messages) /\ Len(<<m>>) = 1 /\ <<m>>[1] = m
      /\ FitQueue(<<m>>, devices', state) /\ Sent(<<m>>, "DeviceRemoved", d, 0)
  BY <1>3, <1>5 DEF FitQueue, Sent
<1> HIDE DEF ms
<1>8. /\ r \in Seq(Messages) /\ ms \in Seq(Messages) /\ FitQueue(ms, devices', state)
      /\ LastCurrent(ms, devices', state, switch')
      /\ Live(SWITCH, devices') => SpeaksOf(ms, SWITCH) \/ switch' = switch
      /\ Sent(ms, "DeviceRemoved", d, 0)
      /\ \A i \in 1..Len(ms) : ms[i].signal # "DeviceAdded"
  <2>1. \A k \in 1..Len(<<m>>) : <<m>>[k].signal = "DeviceRemoved"
    BY <1>5, <1>7
  <2>2. Present(<<m>>, devices', state)
    BY <1>7, <2>1 DEF Present
  <2>3. r \in Seq(Messages) /\ Telling(ms, devices', state, switch, <<m>>)
    BY <1>3, <1>4, <2>2, Announced DEF ms
  <2> HIDE DEF r
  <2>4. \A i \in 1..Len(ms) : ms[i].signal # "DeviceAdded"
    BY <2>1, <2>3 DEF Telling
  <2> QED
    BY <1>2, <1>7, <2>3, <2>4 DEF Telling
<1>9. queue' = queue \o ms
  <2> HIDE DEF r
  <2> QED
    BY <1>1, <1>6, <1>7, <1>8, ConcatAssociative DEF ms
<1>10. DaemonInv'
  BY <1>1, <1>2, <1>3 DEF DaemonInv
<1>11. ASSUME NEW p \in Paths, Live(p, devices')
       PROVE  \/ SpeaksOf(ms, p)
              \/ p \in Devices /\ state[p] = 0
              \/ Live(p, devices) /\ Value(p, state', switch') = Value(p, state, switch)
  <2>1. devices # <<>>
    BY <1>2, EmptySeq DEF Contains
  <2> QED
    BY <1>2, <1>3, <1>8, <1>11, <2>1 DEF Live, Value, Paths
<1>12. Report(ms)
  BY <1>2, <1>3, <1>8, <1>9, <1>10, <1>11 DEF Report
<1>13. Orderly(ms)
  BY <1>3, <1>8 DEF Orderly
<1> QED
  BY <1>12, <1>13

\* The reply to GetAll.
LEMMA GetAllReports ==
    ASSUME SyncInv, GetAll
    PROVE  \E ms : Report(ms) /\ Orderly(ms)
<1> USE Constants
<1>1. /\ DaemonInv /\ queue \in Seq(Messages)
      /\ UNCHANGED <<devices, state, switch, clientVars>>
  BY DEF SyncInv, FitQueue, GetAll, daemonVars
<1>2. PICK p \in asked :
        /\ asked' = asked \ {p}
        /\ \/ /\ Live(p, devices) \/ p = SWITCH
              /\ queue' = Append(queue, Message("PropertiesChanged", p, Value(p, state, switch)))
           \/ ~ Live(p, devices) /\ queue' = queue
  BY DEF GetAll, Live, Value
<1>3. DaemonInv' /\ p \in Paths
  BY <1>1, <1>2 DEF DaemonInv
<1>4. CASE /\ Live(p, devices) \/ p = SWITCH
           /\ queue' = Append(queue, Message("PropertiesChanged", p, Value(p, state, switch)))
  <2> DEFINE m == Message("PropertiesChanged", p, Value(p, state, switch))
  <2>1. /\ m \in Messages /\ Fit(m, state) /\ m.signal = "PropertiesChanged"
        /\ m.path = p /\ m.value = Value(p, state, switch)
    <3>1. CASE p = SWITCH
      <4>1. switch \in KillswitchState
        BY <1>1, SwitchState DEF DaemonInv
      <4> QED
        BY <3>1, <4>1 DEF Message, Messages, Signals, Paths, Fit, Value
    <3>2. CASE p \in Devices
      <4>1. state[p] \in Nat \ {0}
        BY <1>1, <1>4, <3>2 DEF DaemonInv, Live
      <4> QED
        BY <3>2, <4>1, OfDevice DEF Signals, Value
    <3> QED
      BY <1>3, <3>1, <3>2 DEF Paths
  <2> HIDE DEF m
  <2>2. /\ <<m>> \in Seq(Messages) /\ Len(<<m>>) = 1 /\ <<m>>[1] = m
        /\ \A k \in 1..Len(<<m>>) : <<m>>[k] = m
    BY <2>1
  <2>3. queue' = queue \o <<m>>
    BY <1>1, <1>4, <2>1, AppendIsConcat DEF m
  <2>4. /\ FitQueue(<<m>>, devices', state')
        /\ LastCurrent(<<m>>, devices', state', switch')
        /\ SpeaksOf(<<m>>, p)
    BY <1>1, <2>1, <2>2 DEF FitQueue, LastCurrent, SpeaksOf, Renews
  <2>5. Report(<<m>>)
    BY <1>1, <1>2, <1>3, <2>2, <2>3, <2>4 DEF Report
  <2>6. Orderly(<<m>>)
    BY <1>1, <2>1, <2>2 DEF Orderly
  <2> QED
    BY <2>5, <2>6
<1>5. CASE ~ Live(p, devices) /\ queue' = queue
  <2>1. /\ <<>> \in Seq(Messages) /\ Len(<<>>) = 0 /\ queue' = queue \o <<>>
    BY <1>1, <1>5, EmptySeq, ConcatEmptySeq
  <2>2. Report(<<>>)
    BY <1>1, <1>2, <1>3, <1>5, <2>1 DEF Report, FitQueue, LastCurrent
  <2>3. Orderly(<<>>)
    BY <1>1, <2>1 DEF Orderly
  <2> QED
    BY <2>2, <2>3
<1> QED
  BY <1>2, <1>4, <1>5
-----------------------------------------------------------------------------
(* A new daemon: it announces its devices one after the other.             *)

\* FlattenSeq is computed from the front.
Concatenates(f, seqs, n) == f = [i \in 1..n |-> IF i = 1 THEN seqs[i] ELSE f[i - 1] \o seqs[i]]

LEMMA ConcatenationsExist ==
    ASSUME NEW seqs
    PROVE  \A n \in Nat : \E f : Concatenates(f, seqs, n)
<1> DEFINE Bad == {n \in Nat : ~ \E f : Concatenates(f, seqs, n)}
           n == Min(Bad)
<1> SUFFICES ASSUME Bad # {} PROVE FALSE
  OBVIOUS
<1>1. n \in Bad /\ \A k \in Bad : n <= k
  <2>1. Bad \in SUBSET Nat
    OBVIOUS
  <2> HIDE DEF Bad
  <2> QED
    BY <2>1, HasLeast
<1>2. n \in Nat /\ ~ \E f : Concatenates(f, seqs, n)
  BY <1>1
<1> HIDE DEF n
<1>3. CASE n = 0
  <2> DEFINE f == [i \in 1..0 |-> <<>>]
  <2>1. Concatenates(f, seqs, 0)
    BY DEF Concatenates
  <2> QED
    BY <1>2, <1>3, <2>1
<1>4. CASE n # 0
  <2>1. n - 1 \in Nat /\ n - 1 \notin Bad
    BY <1>1, <1>2, <1>3
  <2>2. PICK f : Concatenates(f, seqs, n - 1)
    BY <2>1
  <2> DEFINE g == [i \in 1..n |-> IF i = 1 THEN seqs[i] ELSE f[i - 1] \o seqs[i]]
  <2>3. ASSUME NEW i \in 1..n, i # 1 PROVE g[i - 1] = f[i - 1]
    <3>1. i - 1 \in 1..(n - 1) /\ i - 1 \in 1..n
      BY <1>2, <2>3
    <3>2. f[i - 1] = IF i - 1 = 1 THEN seqs[i - 1] ELSE f[(i - 1) - 1] \o seqs[i - 1]
      BY <2>2, <3>1 DEF Concatenates
    <3>3. g[i - 1] = IF i - 1 = 1 THEN seqs[i - 1] ELSE f[(i - 1) - 1] \o seqs[i - 1]
      BY <3>1
    <3> QED
      BY <3>2, <3>3
  <2>4. g = [i \in 1..n |-> IF i = 1 THEN seqs[i] ELSE g[i - 1] \o seqs[i]]
    BY <2>3
  <2> HIDE DEF g
  <2>5. Concatenates(g, seqs, n)
    BY <2>4 DEF Concatenates
  <2> QED
    BY <1>2, <2>5
<1> QED
  BY <1>3, <1>4

LEMMA Flattened ==
    ASSUME NEW seqs, Len(seqs) \in Nat \ {0}
    PROVE  \E f : Concatenates(f, seqs, Len(seqs)) /\ FlattenSeq(seqs) = f[Len(seqs)]
<1>1. \E f : Concatenates(f, seqs, Len(seqs))
  BY ConcatenationsExist
<1> DEFINE g == CHOOSE f : Concatenates(f, seqs, Len(seqs))
<1>2. Concatenates(g, seqs, Len(seqs))
  BY <1>1
<1>3. FlattenSeq(seqs) = g[Len(seqs)]
  BY DEF FlattenSeq, Concatenates
<1> QED
  BY <1>2, <1>3
\* What a new daemon has said when it has the devices devs of those that are left.
Told(q, devs, left, st) ==
    /\ FitQueue(q, left, st)
    /\ LastCurrent(q, devs, st, StateOf(devs, st))
    /\ \A k \in 1..Len(q) : q[k].signal = "PropertiesChanged" => q[k].path = SWITCH

LEMMA TellsNext ==
    ASSUME NEW left \in Seq(Devices), NEW st \in [Devices -> Nat],
           \A i \in 1..Len(left) : st[left[i]] # 0,
           NEW n \in 1..Len(left), NEW q, Told(q, SubSeq(left, 1, n - 1), left, st)
    PROVE  LET ms == device_added_cb(left[n], SubSeq(left, 1, n - 1), st,
                                     StateOf(SubSeq(left, 1, n - 1), st))
           IN  ms \in Seq(Messages) /\ Told(q \o ms, SubSeq(left, 1, n), left, st)
<1> DEFINE before == SubSeq(left, 1, n - 1)
           devs == SubSeq(left, 1, n)
           d == left[n]
           m == Message("DeviceAdded", d, st[d])
           old == StateOf(before, st)
           sw == StateOf(devs, st)
           ms == Refreshed(devs, st, old) \o <<m>>
<1> USE Constants
<1>1. /\ d \in Devices /\ st[d] \in Nat \ {0}
      /\ Len(left) \in Nat /\ \A i \in 1..Len(left) : left[i] \in Devices
  BY ElementOfSeq, LenProperties
<1>2. /\ before \in Seq(Devices) /\ devs \in Seq(Devices) /\ devs # <<>>
      /\ Append(before, d) = devs
  <2>1. /\ before \in Seq(Devices) /\ Len(before) = n - 1
        /\ \A i \in 1..(n - 1) : before[i] = left[i]
    <3>1. \A k \in 1..(n - 1) : left[k] \in Devices
      BY <1>1
    <3>2. /\ before \in Seq(Devices)
          /\ Len(before) = IF 1 <= n - 1 THEN n - 1 - 1 + 1 ELSE 0
          /\ \A j \in 1..(n - 1 - 1 + 1) : before[j] = left[1 + j - 1]
      BY <3>1, SubSeqProperties
    <3> HIDE DEF before
    <3> QED
      BY <3>2
  <2>2. /\ devs \in Seq(Devices) /\ Len(devs) = n
        /\ \A i \in 1..n : devs[i] = left[i]
    <3>1. \A k \in 1..n : left[k] \in Devices
      BY <1>1
    <3>2. /\ devs \in Seq(Devices)
          /\ Len(devs) = IF 1 <= n THEN n - 1 + 1 ELSE 0
          /\ \A j \in 1..(n - 1 + 1) : devs[j] = left[1 + j - 1]
      BY <3>1, SubSeqProperties
    <3> HIDE DEF devs
    <3> QED
      BY <3>2
  <2> HIDE DEF before, devs
  <2>3. Append(before, d) \in Seq(Devices) /\ Len(Append(before, d)) = n
        /\ \A i \in 1..n : Append(before, d)[i] = devs[i]
    <3> HIDE DEF d, m, old, sw, ms
    <3>1. /\ Append(before, d) \in Seq(Devices) /\ Len(Append(before, d)) = Len(before) + 1
          /\ \A i \in 1..Len(before) : Append(before, d)[i] = before[i]
          /\ Append(before, d)[Len(before) + 1] = d
      BY <1>1, <2>1, AppendProperties
    <3>2. \A i \in 1..n : i \in 1..(n - 1) \/ i = n
      BY <1>1
    <3>3. Len(before) + 1 = n /\ devs[n] = d
      BY <1>1, <2>1, <2>2 DEF d
    <3>4. ASSUME NEW i \in 1..(n - 1) PROVE Append(before, d)[i] = devs[i]
      <4>1. i \in 1..Len(before) /\ i \in 1..n
        BY <1>1, <2>1
      <4> QED
        BY <2>1, <2>2, <3>1, <4>1
    <3>5. \A i \in 1..n : Append(before, d)[i] = devs[i]
      BY <3>1, <3>2, <3>3, <3>4
    <3> HIDE DEF d
    <3> QED
      BY <3>1, <3>3, <3>5
  <2>4. Append(before, d) = devs
    BY <2>2, <2>3, SeqEqual
  <2> QED
    BY <2>1, <2>2, <2>4, EmptySeq
<1>3. m \in Messages /\ Fit(m, st) /\ m.signal = "DeviceAdded" /\ m.path = d
  BY <1>1, OfDevice DEF Signals
<1>4. device_added_cb(d, before, st, old) = ms
  BY <1>2 DEF device_added_cb
<1> HIDE DEF before, devs, m, d
<1>5. /\ <<m>> \in Seq(Messages) /\ \A k \in 1..Len(<<m>>) : <<m>>[k] = m
  BY <1>3
<1>6. Present(<<m>>, devs, st)
  BY <1>3, <1>5 DEF Present, FitQueue
<1>7. Telling(ms, devs, st, old, <<m>>)
  BY <1>2, <1>6, Announced
<1> HIDE DEF ms
<1>8. /\ ms \in Seq(Messages) /\ LastCurrent(ms, devs, st, sw)
      /\ SpeaksOf(ms, SWITCH) \/ sw = old
      /\ \A i \in 1..Len(ms) : Fit(ms[i], st) /\ ms[i].signal # "DeviceRemoved"
      /\ \A i \in 1..Len(ms) : ms[i].signal = "PropertiesChanged" => ms[i].path = SWITCH
  <2>1. /\ ms \in Seq(Messages) /\ LastCurrent(ms, devs, st, sw)
        /\ SpeaksOf(ms, SWITCH) \/ sw = old
        /\ \A i \in 1..Len(ms) : Fit(ms[i], st)
        /\ \A i \in 1..Len(ms) :
             \/ ms[i].signal = "PropertiesChanged" /\ ms[i].path = SWITCH
             \/ \E j \in 1..Len(<<m>>) : ms[i] = <<m>>[j]
    BY <1>2, <1>7 DEF Telling, FitQueue, Live
  <2>2. \A i \in 1..Len(ms) :
            (ms[i].signal = "PropertiesChanged" /\ ms[i].path = SWITCH) \/ ms[i] = m
    BY <1>5, <2>1
  <2> QED
    BY <1>3, <2>1, <2>2
<1>9. q \in Seq(Messages) /\ LastCurrent(q, before, st, old)
      /\ \A k \in 1..Len(q) : /\ Fit(q[k], st)
                              /\ q[k].signal = "DeviceRemoved" => ~ Contains(left, q[k].path)
                              /\ q[k].signal = "PropertiesChanged" => q[k].path = SWITCH
  BY DEF Told, FitQueue, before
<1>10. q \o ms \in Seq(Messages) /\ Joins(q \o ms, q, ms)
  BY <1>8, <1>9, Joined
<1>11. ASSUME NEW i \in 1..Len(q \o ms)
       PROVE  /\ Fit((q \o ms)[i], st)
              /\ (q \o ms)[i].signal = "DeviceRemoved" => ~ Contains(left, (q \o ms)[i].path)
              /\ (q \o ms)[i].signal = "PropertiesChanged" => (q \o ms)[i].path = SWITCH
  <2>1. CASE i \in 1..Len(q)
    BY <1>9, <1>10, <2>1 DEF Joins
  <2>2. CASE \E j \in 1..Len(ms) : i = Len(q) + j
    BY <1>8, <1>10, <2>2 DEF Joins
  <2> QED
    BY <1>10, <2>1, <2>2 DEF Joins
<1>12. LastCurrent(q \o ms, devs, st, sw)
  <2>1. ASSUME sw = old PROVE Live(SWITCH, before)
    <3>1. sw # NO_ADAPTER /\ (old = NO_ADAPTER <=> before = <<>>)
      BY <1>2, SwitchState
    <3> QED
      BY <2>1, <3>1 DEF Live
  <2>2. \A k \in 1..Len(q) : q[k].signal = "PropertiesChanged" =>
            \/ SpeaksOf(ms, q[k].path)
            \/ Live(q[k].path, before) /\ Value(q[k].path, st, sw) = Value(q[k].path, st, old)
    BY <1>8, <1>9, <2>1 DEF Value
  <2> HIDE DEF sw, old
  <2> QED
    BY <1>8, <1>9, <2>2, JoinCurrent
<1>13. Told(q \o ms, devs, left, st)
  BY <1>10, <1>11, <1>12 DEF Told, FitQueue
<1> QED
  BY <1>4, <1>8, <1>13 DEF devs, d, before
LEMMA NewDaemonTells ==
    ASSUME NEW left \in Seq(Devices), NEW st \in [Devices -> Nat],
           \A i \in 1..Len(left) : st[left[i]] # 0
    PROVE  Told(FlattenSeq([i \in DOMAIN left |->
                   device_added_cb(left[i], SubSeq(left, 1, i - 1), st,
                                   StateOf(SubSeq(left, 1, i - 1), st))]), left, left, st)
<1> DEFINE added(i) == device_added_cb(left[i], SubSeq(left, 1, i - 1), st,
                                       StateOf(SubSeq(left, 1, i - 1), st))
           seqs == [i \in DOMAIN left |-> added(i)]
<1>1. Len(left) \in Nat /\ DOMAIN left = 1..Len(left)
  BY LenProperties
<1>2. Len(seqs) = Len(left) /\ \A i \in 1..Len(left) : seqs[i] = added(i)
  <2>1. seqs \in [1..Len(left) -> {added(i) : i \in 1..Len(left)}]
    BY <1>1
  <2>2. seqs \in Seq({added(i) : i \in 1..Len(left)}) /\ DOMAIN seqs = 1..Len(left)
    BY <1>1, <2>1, SeqDef
  <2>3. Len(seqs) = Len(left)
    <3> HIDE DEF seqs, added
    <3> QED
      BY <1>1, <2>2, LenProperties
  <2> QED
    BY <1>1, <2>3
<1>3. ASSUME NEW n \in 1..Len(left), NEW q, Told(q, SubSeq(left, 1, n - 1), left, st)
      PROVE  added(n) \in Seq(Messages) /\ Told(q \o added(n), SubSeq(left, 1, n), left, st)
  BY <1>3, TellsNext
<1>4. DOMAIN seqs = DOMAIN left
  OBVIOUS
<1> HIDE DEF added
<1>5. CASE Len(left) = 0
  <2>1. FlattenSeq(seqs) = seqs
    BY <1>2, <1>5 DEF FlattenSeq
  <2>2. seqs = <<>>
    BY <1>1, <1>5
  <2>3. <<>> \in Seq(Messages) /\ Len(<<>>) = 0
    BY EmptySeq
  <2> HIDE DEF seqs
  <2>4. Told(seqs, left, left, st)
    BY <2>2, <2>3 DEF Told, FitQueue, LastCurrent
  <2> QED
    BY <2>1, <2>4 DEF seqs, added
<1>6. CASE Len(left) # 0
  <2> HIDE DEF seqs
  <2>1. PICK f : Concatenates(f, seqs, Len(left)) /\ FlattenSeq(seqs) = f[Len(left)]
    BY <1>1, <1>2, <1>6, Flattened
  <2> DEFINE Bad == {n \in 1..Len(left) : ~ Told(f[n], SubSeq(left, 1, n), left, st)}
             n == Min(Bad)
  <2>2. Bad = {}
    <3> SUFFICES ASSUME Bad # {} PROVE FALSE
      OBVIOUS
    <3>1. n \in Bad /\ \A k \in Bad : n <= k
      <4>1. Bad \in SUBSET Nat
        BY <1>1
      <4> HIDE DEF Bad
      <4> QED
        BY <4>1, HasLeast
    <3>2. n \in 1..Len(left) /\ ~ Told(f[n], SubSeq(left, 1, n), left, st)
      BY <3>1
    <3>3. \A k \in 1..Len(left) : k < n => Told(f[k], SubSeq(left, 1, k), left, st)
      BY <1>1, <3>1
    <3> HIDE DEF Bad, n
    <3>4. f[n] = IF n = 1 THEN added(n) ELSE f[n - 1] \o added(n)
      BY <1>2, <2>1, <3>2 DEF Concatenates
    <3>5. CASE n = 1
      <4>1. <<>> \in Seq(Messages) /\ Len(<<>>) = 0
        BY EmptySeq
      <4>2. Told(<<>>, SubSeq(left, 1, n - 1), left, st)
        BY <4>1 DEF Told, FitQueue, LastCurrent
      <4>3. added(n) \in Seq(Messages) /\ Told(<<>> \o added(n), SubSeq(left, 1, n), left, st)
        BY <1>3, <3>2, <4>2
      <4>4. <<>> \o added(n) = added(n)
        BY <4>3, ConcatEmptySeq
      <4> QED
        BY <3>2, <3>4, <3>5, <4>3, <4>4
    <3>6. CASE n # 1
      <4>1. n - 1 \in 1..Len(left) /\ n - 1 < n
        BY <1>1, <3>2, <3>6
      <4>2. Told(f[n - 1], SubSeq(left, 1, n - 1), left, st)
        BY <3>3, <4>1
      <4> QED
        BY <1>3, <3>2, <3>4, <3>6, <4>2
    <3> QED
      BY <3>5, <3>6
  <2>3. Told(f[Len(left)], SubSeq(left, 1, Len(left)), left, st)
    BY <1>1, <1>6, <2>2
  <2>4. SubSeq(left, 1, Len(left)) = left
    BY SubSeqFull
  <2> QED
    BY <2>1, <2>3, <2>4 DEF seqs, added
<1> QED
  BY <1>5, <1>6

LEMMA StartupReports ==
    ASSUME SyncInv, NEW left \in Seq(Devices), Injective(left),
           \A d \in Devices : Contains(left, d) => Contains(devices, d),
           state' \in [Devices -> Nat], \A d \in Devices : state[d] # 0 => state'[d] # 0,
           startup(left), asked' = {}, UNCHANGED clientVars
    PROVE  \E ms : Report(ms)
<1> USE Constants
<1>1. DaemonInv /\ queue \in Seq(Messages)
  BY DEF SyncInv, FitQueue
<1> DEFINE m == Message("NameOwnerChanged", SWITCH, 0)
           says == FlattenSeq([i \in DOMAIN left |->
                       device_added_cb(left[i], SubSeq(left, 1, i - 1), state',
                                       StateOf(SubSeq(left, 1, i - 1), state'))])
           ms == <<m>> \o says
<1>2. devices' = left /\ switch' = StateOf(left, state') /\ queue' = queue \o <<m>> \o says
  BY DEF startup
<1>3. \A d \in Devices : Contains(left, d) => state'[d] # 0
  BY <1>1 DEF DaemonInv
<1>4. Told(says, left, left, state')
  <2>1. \A i \in 1..Len(left) : left[i] \in Devices /\ state'[left[i]] # 0
    BY <1>3, ElementOfSeq DEF Contains
  <2> QED
    BY <2>1, NewDaemonTells
<1>5. /\ m \in Messages /\ m.signal = "NameOwnerChanged" /\ Fit(m, state')
  BY DEF Message, Messages, Signals, Paths, Fit, KillswitchState, UNBLOCKED
<1> HIDE DEF m, says
<1>6. /\ <<m>> \in Seq(Messages) /\ Len(<<m>>) = 1 /\ <<m>>[1] = m
      /\ \A k \in 1..Len(<<m>>) : <<m>>[k] = m
  BY <1>5
<1>7. /\ says \in Seq(Messages) /\ FitQueue(says, left, state')
      /\ LastCurrent(says, left, state', switch')
  BY <1>2, <1>4 DEF Told, FitQueue
<1>8. ms \in Seq(Messages) /\ Joins(ms, <<m>>, says)
  BY <1>6, <1>7, Joined
<1>9. queue' = queue \o ms
  BY <1>1, <1>2, <1>6, <1>7, ConcatAssociative
<1>10. LastCurrent(ms, left, state', switch')
  <2>1. LastCurrent(<<m>>, left, state', switch')
    BY <1>5, <1>6 DEF LastCurrent
  <2>2. \A k \in 1..Len(<<m>>) : <<m>>[k].signal # "PropertiesChanged"
    BY <1>5, <1>6
  <2> QED
    BY <1>6, <1>7, <2>1, <2>2, JoinCurrent
<1> HIDE DEF ms
<1>11. FitQueue(ms, left, state')
  <2> SUFFICES ASSUME NEW i \in 1..Len(ms)
               PROVE  /\ Fit(ms[i], state')
                      /\ ms[i].signal = "DeviceRemoved" => ~ Contains(left, ms[i].path)
    BY <1>8 DEF FitQueue
  <2>1. CASE i \in 1..Len(<<m>>)
    <3>1. ms[i] = m
      BY <1>6, <1>8, <2>1 DEF Joins
    <3> QED
      BY <1>5, <3>1
  <2>2. CASE \E j \in 1..Len(says) : i = Len(<<m>>) + j
    <3>1. PICK j \in 1..Len(says) : ms[i] = says[j]
      BY <1>8, <2>2 DEF Joins
    <3> QED
      BY <1>7, <3>1 DEF FitQueue
  <2> QED
    BY <1>8, <2>1, <2>2 DEF Joins
<1>12. \A p : SpeaksOf(ms, p)
  <2>1. 1 \in 1..Len(ms) /\ ms[1] = m
    BY <1>6, <1>8 DEF Joins
  <2> QED
    BY <1>5, <2>1 DEF SpeaksOf, Renews
<1>13. DaemonInv'
  BY <1>1, <1>2, <1>3 DEF DaemonInv
<1>14. Report(ms)
  BY <1>2, <1>8, <1>9, <1>10, <1>11, <1>12, <1>13 DEF Report
<1> QED
  BY <1>14

LEMMA RestartReports ==
    ASSUME SyncInv, Restart
    PROVE  \E ms : Report(ms)
<1>1. DaemonInv /\ asked' = {} /\ UNCHANGED clientVars
  BY DEF SyncInv, Restart
<1>2. /\ devices \in Seq(Devices) /\ Injective(devices) /\ state \in [Devices -> Nat]
  BY <1>1 DEF DaemonInv
<1>3. CASE UNCHANGED state /\ startup(devices)
  BY <1>1, <1>2, <1>3, StartupReports
<1>4. CASE \E d \in Range(devices) : state' = [state EXCEPT ![d] = @ + 1] /\ startup(devices)
  <2>1. PICK d \in Range(devices) : state' = [state EXCEPT ![d] = state[d] + 1]
    BY <1>4
  <2> d \in Devices
    <3>1. PICK i \in DOMAIN devices : d = devices[i]
      BY DEF Range
    <3> QED
      BY <1>2, <3>1, LenProperties, ElementOfSeq
  <2>2. \A e \in Devices : state'[e] = IF e = d THEN state[e] + 1 ELSE state[e]
    BY <1>2, <2>1
  <2>3. /\ state' \in [Devices -> Nat]
        /\ \A e \in Devices : state[e] # 0 => state'[e] # 0
    BY <1>2, <2>1, <2>2
  <2> QED
    BY <1>1, <1>2, <1>4, <2>3, StartupReports
<1>5. CASE \E d \in Range(devices) : UNCHANGED state /\ startup(RemoveFirst(devices, d))
  <2>1. PICK d \in Range(devices) : UNCHANGED state /\ startup(RemoveFirst(devices, d))
    BY <1>5
  <2>2. Contains(devices, d)
    BY <1>2, LenProperties DEF Range, Contains
  <2>3. /\ RemoveFirst(devices, d) \in Seq(Devices) /\ Injective(RemoveFirst(devices, d))
        /\ \A e : Contains(RemoveFirst(devices, d), e) => Contains(devices, e)
    BY <1>2, <2>2, LeavesList
  <2> QED
    BY <1>1, <1>2, <2>1, <2>3, StartupReports
<1> QED
  BY <1>3, <1>4, <1>5 DEF Restart
-----------------------------------------------------------------------------
(* The client.                                                             *)

\* The objects of a list, with the messages q that wait.
Objects(l, q, ask) ==
    /\ l \in Seq(DeviceObject)
    /\ \A i \in 1..Len(l) :
         /\ state[l[i].path] # 0
         /\ l[i].state = Unknown => ~ Contains(devices, l[i].path)
         /\ Follows(l[i].path, l[i].state, l[i].skip, q, devices, state, switch, ask)

LEMMA ClientKeeps ==
    ASSUME SyncInv, UNCHANGED daemonVars,
           FitQueue(queue', devices, state), LastCurrent(queue', devices, state, switch),
           asked' \subseteq Paths, Objects(list', queue', asked'),
           todo' \in Seq(Devices), \A i \in 1..Len(todo') : state[todo'[i]] # 0,
           is_enumerated' \in BOOLEAN,
           killswitch' \in [state : KillswitchState \cup {Unknown}, skip : Nat],
           Follows(SWITCH, killswitch'.state, killswitch'.skip,
                   queue', devices, state, switch, asked'),
           NoneMissed'
    PROVE  SyncInv'
<1>1. UNCHANGED <<devices, state, switch>> /\ DaemonInv
  BY DEF daemonVars, SyncInv
<1>2. DaemonInv'
  BY <1>1 DEF DaemonInv
<1>3. ClientInv' /\ AllFollow'
  BY <1>1 DEF ClientInv, AllFollow, Objects
<1> QED
  BY <1>1, <1>2, <1>3 DEF SyncInv

LEMMA ObjectsNow == ASSUME SyncInv PROVE Objects(list, queue, asked)
BY DEF SyncInv, ClientInv, AllFollow, Objects

LEMMA WaitingChanges ==
    ASSUME queue \in Seq(Messages), NEW path
    PROVE  Waiting(path) = Cardinality(Changes(queue, path)) /\ Waiting(path) \in Nat
<1>1. DOMAIN queue = 1..Len(queue)
  BY LenProperties
<1>2. Cardinality(Changes(queue, path)) \in Nat
  BY Counts
<1> QED
  BY <1>1, <1>2 DEF Waiting, Changes

\* A new object has the state of the daemon.
LEMMA AddedFollows ==
    ASSUME SyncInv, NEW path \in Devices, state[path] # 0, add(path)
    PROVE  /\ Objects(list', queue, asked)
           /\ Len(list') = Len(list) + 1 /\ list'[Len(list) + 1].path = path
           /\ \A i \in 1..Len(list) : list'[i] = list[i]
           /\ \A p : Known(p)' <=> Known(p) \/ p = path
<1> USE Constants
<1>1. PICK skip \in 0..Waiting(path) :
          list' = Append(list, set_object_path_sync(path, skip))
  BY DEF add
<1> DEFINE r == set_object_path_sync(path, skip)
<1>2. /\ queue \in Seq(Messages) /\ state[path] \in Nat /\ Objects(list, queue, asked)
      /\ list \in Seq(DeviceObject)
  BY ObjectsNow DEF SyncInv, FitQueue, DaemonInv, ClientInv
<1>3. Waiting(path) = Cardinality(Changes(queue, path)) /\ Waiting(path) \in Nat
  BY <1>2, WaitingChanges
<1>4. /\ r \in DeviceObject /\ r.path = path /\ r.skip = skip
      /\ r.state = IF Contains(devices, path) THEN state[path] ELSE Unknown
      /\ skip \in Nat /\ skip <= Cardinality(Changes(queue, path))
  BY <1>2, <1>3 DEF set_object_path_sync, DeviceObject
<1>5. list' = Append(list, r)
  BY <1>1
<1> HIDE DEF r
<1>6. Follows(path, r.state, r.skip, queue, devices, state, switch, asked)
  BY <1>4 DEF Follows, Live, Value
<1>7. /\ list' \in Seq(DeviceObject) /\ Len(list') = Len(list) + 1 /\ Len(list) \in Nat
      /\ \A i \in 1..Len(list) : list'[i] = list[i]
      /\ list'[Len(list) + 1] = r
  BY <1>2, <1>4, <1>5, AppendProperties, LenProperties
<1>8. \A i \in 1..Len(list') : i \in 1..Len(list) \/ i = Len(list) + 1
  BY <1>7
<1>9. Objects(list', queue, asked)
  <2> SUFFICES ASSUME NEW i \in 1..Len(list')
               PROVE  /\ state[list'[i].path] # 0
                      /\ list'[i].state = Unknown => ~ Contains(devices, list'[i].path)
                      /\ Follows(list'[i].path, list'[i].state, list'[i].skip,
                                 queue, devices, state, switch, asked)
    BY <1>7 DEF Objects
  <2>1. CASE i \in 1..Len(list)
    BY <1>2, <1>7, <2>1 DEF Objects
  <2>2. CASE i = Len(list) + 1
    <3>1. list'[i] = r
      BY <1>7, <2>2
    <3>2. r.state = Unknown => ~ Contains(devices, path)
      BY <1>2, <1>4
    <3> QED
      BY <1>4, <1>6, <3>1, <3>2
  <2> QED
    BY <1>8, <2>1, <2>2
<1>10. \A p : Known(p)' <=> Known(p) \/ p = path
  <2>1. DOMAIN list = 1..Len(list) /\ DOMAIN list' = 1..Len(list')
    BY <1>2, <1>7, LenProperties
  <2>2. Len(list) + 1 \in 1..Len(list') /\ \A i \in 1..Len(list) : i \in 1..Len(list')
    BY <1>7
  <2> QED
    BY <1>4, <1>7, <1>8, <2>1, <2>2 DEF Known
<1> QED
  BY <1>4, <1>7, <1>9, <1>10

LEMMA EnumerateKeeps == ASSUME SyncInv, enumerate_devices_sync PROVE SyncInv'
<1>1. /\ UNCHANGED <<daemonVars, queue, asked, list, killswitch>>
      /\ todo' = devices /\ is_enumerated' = (is_enumerated \/ devices = <<>>)
  BY DEF enumerate_devices_sync
<1>2. /\ DaemonInv /\ ClientInv /\ FitQueue(queue, devices, state) /\ AllFollow
      /\ LastCurrent(queue, devices, state, switch) /\ Objects(list, queue, asked)
  BY ObjectsNow DEF SyncInv
<1>3. NoneMissed'
  <2>1. \A d : Contains(devices, d)' => Contains(todo, d)'
    BY <1>1 DEF daemonVars, Contains
  <2> QED
    BY <2>1 DEF NoneMissed
<1>4. /\ todo' \in Seq(Devices) /\ \A i \in 1..Len(todo') : state[todo'[i]] # 0
  <2>1. \A i \in 1..Len(devices) : devices[i] \in Devices /\ Contains(devices, devices[i])
    BY <1>2, ElementOfSeq DEF DaemonInv, Contains
  <2> QED
    BY <1>1, <1>2, <2>1 DEF DaemonInv
<1>5. is_enumerated' \in BOOLEAN
  BY <1>1, <1>2 DEF ClientInv
<1> QED
  BY <1>1, <1>2, <1>3, <1>4, <1>5, ClientKeeps DEF DaemonInv, ClientInv, AllFollow

LEMMA GetDeviceKeeps == ASSUME SyncInv, get_devices_private PROVE SyncInv'
<1>1. /\ UNCHANGED <<daemonVars, queue, asked, killswitch>>
      /\ todo # <<>> /\ add(Head(todo)) /\ todo' = Tail(todo)
      /\ is_enumerated' = (is_enumerated \/ Tail(todo) = <<>>)
  BY DEF get_devices_private
<1>2. /\ DaemonInv /\ ClientInv /\ FitQueue(queue, devices, state) /\ AllFollow
      /\ LastCurrent(queue, devices, state, switch) /\ NoneMissed
  BY DEF SyncInv
<1>3. /\ Tail(todo) \in Seq(Devices) /\ Len(todo) \in Nat \ {0}
      /\ Len(Tail(todo)) = Len(todo) - 1
      /\ \A i \in 1..Len(Tail(todo)) : Tail(todo)[i] = todo[i + 1]
      /\ Head(todo) = todo[1] /\ todo \in Seq(Devices) /\ Head(todo) \in Devices
  <2>1. todo \in Seq(Devices) /\ todo # <<>>
    BY <1>1, <1>2 DEF ClientInv
  <2>2. Len(todo) \in Nat \ {0}
    BY <2>1, EmptySeq
  <2> QED
    BY <2>1, <2>2, HeadTailProperties
<1>4. state[Head(todo)] # 0 /\ \A i \in 1..Len(todo') : state[todo'[i]] # 0
  <2>1. \A i \in 1..Len(Tail(todo)) : i + 1 \in 1..Len(todo)
    BY <1>3
  <2>2. 1 \in 1..Len(todo)
    BY <1>3
  <2> QED
    BY <1>1, <1>2, <1>3, <2>1, <2>2 DEF ClientInv
<1>5. /\ Objects(list', queue, asked)
      /\ \A p : Known(p)' <=> Known(p) \/ p = Head(todo)
  BY <1>1, <1>3, <1>4, AddedFollows
<1>6. NoneMissed'
  <2>1. ASSUME NEW d, Contains(todo, d), d # Head(todo) PROVE Contains(todo', d)
    <3>1. PICK i \in 1..Len(todo) : todo[i] = d
      BY <2>1 DEF Contains
    <3>2. i # 1
      BY <1>3, <2>1, <3>1
    <3>3. i - 1 \in 1..Len(Tail(todo)) /\ (i - 1) + 1 = i
      BY <1>3, <3>2
    <3>4. Tail(todo)[i - 1] = d
      BY <1>3, <3>1, <3>3
    <3> QED
      BY <1>1, <3>3, <3>4 DEF Contains
  <2>2. \A d \in Devices : Contains(devices, d) =>
            Known(d) \/ Contains(todo, d) \/ Sent(queue, "DeviceAdded", d, 0)
    BY <1>1, <1>2 DEF NoneMissed
  <2>3. UNCHANGED <<devices, queue>>
    BY <1>1 DEF daemonVars
  <2> QED
    BY <1>5, <2>1, <2>2, <2>3 DEF NoneMissed
<1>7. is_enumerated' \in BOOLEAN
  BY <1>1, <1>2 DEF ClientInv
<1> QED
  BY <1>1, <1>2, <1>3, <1>4, <1>5, <1>6, <1>7, ClientKeeps DEF DaemonInv, ClientInv, AllFollow

LEMMA KillswitchKeeps == ASSUME SyncInv, urf_killswitch_new PROVE SyncInv'
<1> USE Constants
<1>1. PICK skip \in 0..Waiting(SWITCH) : killswitch' = [state |-> switch, skip |-> skip]
  BY DEF urf_killswitch_new
<1>2. /\ DaemonInv /\ ClientInv /\ FitQueue(queue, devices, state)
      /\ LastCurrent(queue, devices, state, switch) /\ Objects(list, queue, asked)
      /\ queue \in Seq(Messages)
  BY ObjectsNow DEF SyncInv, FitQueue
<1>3. Waiting(SWITCH) = Cardinality(Changes(queue, SWITCH)) /\ Waiting(SWITCH) \in Nat
  BY <1>2, WaitingChanges
<1>4. skip \in Nat /\ skip <= Cardinality(Changes(queue, SWITCH)) /\ switch \in KillswitchState
  BY <1>2, <1>3, SwitchState DEF DaemonInv
<1>5. /\ killswitch' \in [state : KillswitchState \cup {Unknown}, skip : Nat]
      /\ killswitch'.state = switch /\ killswitch'.skip = skip
  BY <1>1, <1>4
<1>6. Follows(SWITCH, switch, skip, queue, devices, state, switch, asked)
  BY <1>4 DEF Follows, Value
<1>7. UNCHANGED <<daemonVars, queue, asked, list, todo, is_enumerated>>
  BY DEF urf_killswitch_new
<1>8. NoneMissed'
  BY <1>7 DEF SyncInv, NoneMissed, daemonVars, Known
<1> QED
  BY <1>2, <1>5, <1>6, <1>7, <1>8, ClientKeeps DEF DaemonInv, ClientInv
\* The messages that are left when the first is read.
LEMMA RestFits ==
    ASSUME NEW q, NEW devs, NEW st, NEW sw, q # <<>>,
           FitQueue(q, devs, st), LastCurrent(q, devs, st, sw)
    PROVE  FitQueue(Tail(q), devs, st) /\ LastCurrent(Tail(q), devs, st, sw)
<1> DEFINE t == Tail(q)
<1>1. /\ t \in Seq(Messages) /\ Len(q) \in Nat \ {0} /\ Len(t) = Len(q) - 1
      /\ \A i \in 1..Len(t) : t[i] = q[i + 1] /\ i + 1 \in 1..Len(q)
  BY Rest DEF FitQueue
<1> HIDE DEF t
<1>2. FitQueue(t, devs, st)
  BY <1>1 DEF FitQueue
<1>3. LastCurrent(t, devs, st, sw)
  <2> SUFFICES ASSUME NEW k \in 1..Len(t), t[k].signal = "PropertiesChanged",
                      Live(t[k].path, devs), t[k].value # Value(t[k].path, st, sw)
               PROVE  \E n \in 1..Len(t) : n > k /\ Renews(t[n], t[k].path)
    BY DEF LastCurrent
  <2>1. PICK n \in 1..Len(q) : n > k + 1 /\ Renews(q[n], q[k + 1].path)
    BY <1>1 DEF LastCurrent
  <2>2. n - 1 \in 1..Len(t) /\ n - 1 > k /\ t[n - 1] = q[n]
    <3>1. n - 1 \in 1..Len(t) /\ n - 1 > k /\ (n - 1) + 1 = n
      BY <1>1, <2>1
    <3>2. t[n - 1] = q[(n - 1) + 1]
      BY <1>1, <3>1
    <3> QED
      BY <3>1, <3>2
  <2> QED
    BY <1>1, <2>1, <2>2
<1> QED
  BY <1>2, <1>3 DEF t

LEMMA RestSent ==
    ASSUME NEW q \in Seq(Messages), q # <<>>, NEW signal, NEW p, NEW i \in Nat,
           \/ Sent(q, signal, p, i + 1)
           \/ i = 0 /\ Sent(q, signal, p, 0) /\ q[1].signal # signal
    PROVE  Sent(Tail(q), signal, p, i)
<1> DEFINE t == Tail(q)
<1>1. /\ Len(q) \in Nat \ {0} /\ Len(t) = Len(q) - 1
      /\ \A j \in 1..Len(t) : t[j] = q[j + 1]
  BY Rest
<1> HIDE DEF t
<1>2. PICK j \in 1..Len(q) : j > i + 1 /\ q[j].signal = signal /\ q[j].path = p
  <2>1. CASE Sent(q, signal, p, i + 1)
    BY <2>1 DEF Sent
  <2>2. CASE i = 0 /\ Sent(q, signal, p, 0) /\ q[1].signal # signal
    <3>1. PICK j \in 1..Len(q) : q[j].signal = signal /\ q[j].path = p
      BY <2>2 DEF Sent
    <3>2. j > i + 1
      BY <1>1, <2>2, <3>1
    <3> QED
      BY <3>1, <3>2
  <2> QED
    BY <2>1, <2>2
<1>3. j - 1 \in 1..Len(t) /\ j - 1 > i /\ (j - 1) + 1 = j
  BY <1>1, <1>2
<1>4. t[j - 1] = q[j]
  BY <1>1, <1>3
<1> QED
  BY <1>2, <1>3, <1>4 DEF Sent, t

\* An object that reads a message: one of its changes, one that concerns it not, or
\* the one of the new daemon.
LEMMA ReadFollows ==
    ASSUME SyncInv, queue # <<>>, NEW p \in Paths, NEW v, NEW skip \in Nat,
           Follows(p, v, skip, queue, devices, state, switch, asked),
           NEW m, m = Head(queue)
    PROVE  /\ m.signal = "PropertiesChanged" /\ m.path = p =>
                /\ skip > 0 => Follows(p, v, skip - 1, Tail(queue), devices, state, switch, asked)
                /\ skip = 0 => Follows(p, IF v = Unknown THEN v ELSE m.value, skip,
                                       Tail(queue), devices, state, switch, asked)
           /\ m.signal # "NameOwnerChanged" /\ ~ (m.signal = "PropertiesChanged" /\ m.path = p) =>
                Follows(p, v, skip, Tail(queue), devices, state, switch, asked)
           /\ m.signal = "NameOwnerChanged" =>
                \A w, ask : (w # Unknown => p \in ask) =>
                    Follows(p, w, skip, Tail(queue), devices, state, switch, ask)
<1> DEFINE t == Tail(queue)
           old == Cardinality(Changes(queue, p))
           new == Cardinality(Changes(t, p))
           NewOwner(q) == \E i \in 1..Len(q) : q[i].signal = "NameOwnerChanged"
<1>1. /\ queue \in Seq(Messages) /\ FitQueue(queue, devices, state)
      /\ LastCurrent(queue, devices, state, switch)
  BY DEF SyncInv, FitQueue
<1>2. /\ t \in Seq(Messages) /\ Len(queue) \in Nat \ {0} /\ Len(t) = Len(queue) - 1
      /\ m = queue[1] /\ 1 \in 1..Len(queue)
      /\ \A i \in 1..Len(t) : t[i] = queue[i + 1] /\ i + 1 \in 1..Len(queue)
  BY <1>1, Rest
<1>3. /\ old \in Nat /\ new \in Nat
      /\ old = IF m.signal = "PropertiesChanged" /\ m.path = p THEN new + 1 ELSE new
  BY <1>1, <1>2, CountRest
<1>4. ASSUME NEW i \in 1..Len(queue), i > 1 PROVE i - 1 \in 1..Len(t) /\ t[i - 1] = queue[i]
  <2>1. i - 1 \in 1..Len(t) /\ (i - 1) + 1 = i
    BY <1>2, <1>4
  <2>2. t[i - 1] = queue[(i - 1) + 1]
    BY <1>2, <2>1
  <2> QED
    BY <2>1, <2>2
<1>5. m.signal # "NameOwnerChanged" /\ NewOwner(queue) => NewOwner(t)
  <2> SUFFICES ASSUME m.signal # "NameOwnerChanged", NewOwner(queue) PROVE NewOwner(t)
    OBVIOUS
  <2>1. PICK i \in 1..Len(queue) : queue[i].signal = "NameOwnerChanged"
    OBVIOUS
  <2>2. i > 1
    BY <1>2, <2>1
  <2> QED
    BY <1>4, <2>1, <2>2
<1>6. /\ skip <= old
      /\ v # Unknown /\ Live(p, devices) =>
           NewOwner(queue) \/ p \in asked \/ v = Value(p, state, switch) \/ skip < old
  BY DEF Follows
<1>7. ASSUME NEW w, NEW k, NEW ask
      PROVE  Follows(p, w, k, t, devices, state, switch, ask) <=>
                /\ k <= new
                /\ w # Unknown /\ Live(p, devices) =>
                     NewOwner(t) \/ p \in ask \/ w = Value(p, state, switch) \/ k < new
  BY DEF Follows
<1> HIDE DEF t, old, new, NewOwner
<1>8. CASE m.signal = "PropertiesChanged" /\ m.path = p
  <2>1. old = new + 1 /\ m.signal # "NameOwnerChanged"
    BY <1>3, <1>8
  <2>2. ASSUME skip > 0 PROVE Follows(p, v, skip - 1, t, devices, state, switch, asked)
    <3>1. skip - 1 <= new /\ (skip < old => skip - 1 < new)
      BY <1>3, <1>6, <2>1, <2>2
    <3> QED
      BY <1>5, <1>6, <1>7, <2>1, <3>1
  <2>3. ASSUME skip = 0, v # Unknown
        PROVE  Follows(p, m.value, skip, t, devices, state, switch, asked)
    <3>1. ASSUME Live(p, devices), m.value # Value(p, state, switch) PROVE NewOwner(t) \/ 0 < new
      <4>1. PICK n \in 1..Len(queue) : n > 1 /\ Renews(queue[n], p)
        BY <1>1, <1>2, <1>8, <3>1 DEF LastCurrent
      <4>2. n - 1 \in 1..Len(t) /\ t[n - 1] = queue[n]
        BY <1>4, <4>1
      <4>3. CASE queue[n].signal = "NameOwnerChanged"
        BY <4>2, <4>3 DEF NewOwner
      <4>4. CASE queue[n].signal = "PropertiesChanged" /\ queue[n].path = p
        <5>1. n - 1 \in Changes(t, p)
          BY <4>2, <4>4 DEF Changes
        <5>2. IsFiniteSet(Changes(t, p))
          BY <1>2, Counts
        <5>3. Cardinality(Changes(t, p)) # 0
          BY <5>1, <5>2, FS_EmptySet
        <5> QED
          BY <1>3, <5>3 DEF new
      <4> QED
        BY <4>1, <4>3, <4>4 DEF Renews
    <3> QED
      BY <1>3, <1>7, <2>3, <3>1
  <2>4. ASSUME skip = 0, v = Unknown
        PROVE  Follows(p, v, skip, t, devices, state, switch, asked)
    BY <1>3, <1>7, <2>4
  <2> QED
    BY <1>8, <2>1, <2>2, <2>3, <2>4 DEF t
<1>9. CASE m.signal # "NameOwnerChanged" /\ ~ (m.signal = "PropertiesChanged" /\ m.path = p)
  <2>1. old = new
    BY <1>3, <1>9
  <2>2. Follows(p, v, skip, t, devices, state, switch, asked)
    BY <1>5, <1>6, <1>7, <1>9, <2>1
  <2> QED
    BY <1>9, <2>2 DEF t
<1>10. CASE m.signal = "NameOwnerChanged"
  <2>1. old = new
    BY <1>3, <1>10
  <2>2. ASSUME NEW w, NEW ask, w # Unknown => p \in ask
        PROVE  Follows(p, w, skip, t, devices, state, switch, ask)
    BY <1>6, <1>7, <2>1, <2>2
  <2> QED
    BY <1>10, <2>2 DEF t
<1> QED
  BY <1>8, <1>9, <1>10
\* What changed_cb makes of the objects.
LEMMA ChangeRead ==
    ASSUME SyncInv, queue # <<>>, NEW m, m = Head(queue), m.signal = "PropertiesChanged",
           changed_cb(m.path, m.value)
    PROVE  /\ Objects(list', Tail(queue), asked)
           /\ Len(list') = Len(list) /\ \A i \in 1..Len(list) : list'[i].path = list[i].path
           /\ killswitch' \in [state : KillswitchState \cup {Unknown}, skip : Nat]
           /\ Follows(SWITCH, killswitch'.state, killswitch'.skip,
                      Tail(queue), devices, state, switch, asked)
<1> USE Constants
<1>1. /\ Objects(list, queue, asked) /\ list \in Seq(DeviceObject)
      /\ DOMAIN list = 1..Len(list) /\ Len(list) \in Nat
      /\ \A i \in 1..Len(list) : list[i] \in DeviceObject
  BY ObjectsNow, LenProperties, ElementOfSeq DEF SyncInv, ClientInv
<1>2. m \in Messages /\ Fit(m, state) /\ (m.path \in Devices => m.value \in Nat)
  <2>1. queue \in Seq(Messages) /\ FitQueue(queue, devices, state)
    BY DEF SyncInv, FitQueue
  <2>2. m = queue[1] /\ m \in Messages /\ 1 \in 1..Len(queue)
    BY <2>1, Rest
  <2> QED
    BY <2>1, <2>2 DEF FitQueue, Fit
<1>3. list' = [i \in 1..Len(list) |-> Heard(list[i], m.path, m.value)]
  BY <1>1 DEF changed_cb, Heard
<1>4. ASSUME NEW i \in 1..Len(list)
      PROVE  LET r == Heard(list[i], m.path, m.value) IN
             /\ r \in DeviceObject /\ r.path = list[i].path /\ state[r.path] # 0
             /\ r.state = Unknown => ~ Contains(devices, r.path)
             /\ Follows(r.path, r.state, r.skip, Tail(queue), devices, state, switch, asked)
  <2> DEFINE o == list[i]
             r == Heard(o, m.path, m.value)
  <2>1. /\ o \in DeviceObject /\ state[o.path] # 0
        /\ o.state = Unknown => ~ Contains(devices, o.path)
        /\ Follows(o.path, o.state, o.skip, queue, devices, state, switch, asked)
    BY <1>1 DEF Objects
  <2>2. o.path \in Devices /\ o.path \in Paths /\ o.skip \in Nat /\ o.state \in Nat \cup {Unknown}
    BY <2>1 DEF DeviceObject, Paths
  <2> HIDE DEF o
  <2>3. /\ m.path = o.path =>
             /\ o.skip > 0 => Follows(o.path, o.state, o.skip - 1,
                                      Tail(queue), devices, state, switch, asked)
             /\ o.skip = 0 => Follows(o.path, IF o.state = Unknown THEN o.state ELSE m.value,
                                      o.skip, Tail(queue), devices, state, switch, asked)
        /\ m.path # o.path => Follows(o.path, o.state, o.skip,
                                      Tail(queue), devices, state, switch, asked)
    BY <2>1, <2>2, ReadFollows
  <2>4. CASE m.path # o.path
    BY <2>1, <2>3, <2>4 DEF Heard, o
  <2>5. CASE m.path = o.path /\ o.skip > 0
    <3>1. r = [o EXCEPT !.skip = o.skip - 1]
      BY <2>5 DEF Heard
    <3>2. r \in DeviceObject /\ r.path = o.path /\ r.state = o.state /\ r.skip = o.skip - 1
      BY <2>1, <2>2, <2>5, <3>1 DEF DeviceObject
    <3> QED
      BY <2>1, <2>3, <2>5, <3>2 DEF o
  <2>6. CASE m.path = o.path /\ o.skip = 0 /\ o.state = Unknown
    <3>1. r = o
      BY <2>6 DEF Heard
    <3> QED
      BY <2>1, <2>3, <2>6, <3>1 DEF o
  <2>7. CASE m.path = o.path /\ o.skip = 0 /\ o.state # Unknown
    <3>1. r = [o EXCEPT !.state = m.value]
      BY <2>7 DEF Heard
    <3>2. r \in DeviceObject /\ r.path = o.path /\ r.state = m.value /\ r.skip = o.skip
          /\ m.value \in Nat
      BY <1>2, <2>1, <2>2, <2>7, <3>1 DEF DeviceObject
    <3> QED
      BY <2>1, <2>3, <2>7, <3>2 DEF o
  <2> QED
    BY <2>2, <2>4, <2>5, <2>6, <2>7
<1>5. /\ list' \in Seq(DeviceObject) /\ Len(list') = Len(list)
      /\ \A i \in 1..Len(list) : list'[i] = Heard(list[i], m.path, m.value)
  <2>1. list' \in [1..Len(list) -> DeviceObject]
    BY <1>3, <1>4
  <2>2. list' \in Seq(DeviceObject) /\ DOMAIN list' = 1..Len(list)
    BY <1>1, <2>1, SeqDef
  <2>3. Len(list') = Len(list)
    BY <1>1, <2>2, LenProperties
  <2> QED
    BY <1>3, <2>2, <2>3
<1>6. Objects(list', Tail(queue), asked) /\ \A i \in 1..Len(list) : list'[i].path = list[i].path
  BY <1>4, <1>5 DEF Objects
<1>7. /\ killswitch' \in [state : KillswitchState \cup {Unknown}, skip : Nat]
      /\ Follows(SWITCH, killswitch'.state, killswitch'.skip,
                 Tail(queue), devices, state, switch, asked)
  <2> DEFINE K == [state : KillswitchState \cup {Unknown}, skip : Nat]
             k == killswitch
  <2>1. /\ k \in K /\ k.skip \in Nat /\ k.state \in KillswitchState \cup {Unknown}
        /\ Follows(SWITCH, k.state, k.skip, queue, devices, state, switch, asked)
    BY DEF SyncInv, ClientInv, AllFollow
  <2>2. /\ m.path = SWITCH =>
             /\ k.skip > 0 => Follows(SWITCH, k.state, k.skip - 1,
                                      Tail(queue), devices, state, switch, asked)
             /\ k.skip = 0 => Follows(SWITCH, IF k.state = Unknown THEN k.state ELSE m.value,
                                      k.skip, Tail(queue), devices, state, switch, asked)
        /\ m.path # SWITCH => Follows(SWITCH, k.state, k.skip,
                                      Tail(queue), devices, state, switch, asked)
    <3> HIDE DEF k
    <3> QED
      BY <2>1, ReadFollows DEF Paths
  <2>3. k' = IF m.path # SWITCH THEN k
             ELSE IF k.skip > 0 THEN [k EXCEPT !.skip = k.skip - 1]
             ELSE IF k.state = Unknown THEN k
             ELSE [k EXCEPT !.state = m.value]
    BY DEF changed_cb
  <2>4. m.path = SWITCH => m.value \in KillswitchState
    BY <1>2 DEF Fit
  <2>5. k' \in K
    BY <2>1, <2>3, <2>4
  <2>6. Follows(SWITCH, k'.state, k'.skip, Tail(queue), devices, state, switch, asked)
    <3>1. CASE m.path # SWITCH
      BY <2>2, <2>3, <3>1
    <3>2. CASE m.path = SWITCH /\ k.skip > 0
      <4>1. k'.state = k.state /\ k'.skip = k.skip - 1
        BY <2>1, <2>3, <3>2
      <4> QED
        BY <2>2, <3>2, <4>1
    <3>3. CASE m.path = SWITCH /\ k.skip = 0 /\ k.state = Unknown
      BY <2>2, <2>3, <3>3
    <3>4. CASE m.path = SWITCH /\ k.skip = 0 /\ k.state # Unknown
      <4>1. k'.state = m.value /\ k'.skip = k.skip
        BY <2>1, <2>3, <3>4
      <4> QED
        BY <2>2, <3>4, <4>1
    <3> QED
      BY <2>1, <3>1, <3>2, <3>3, <3>4
  <2> QED
    BY <2>5, <2>6
<1> QED
  BY <1>5, <1>6, <1>7

\* The objects that another signal leaves in the list.
LEMMA OthersRead ==
    ASSUME SyncInv, queue # <<>>, NEW m, m = Head(queue), m.signal # "PropertiesChanged",
           NEW l, Objects(l, queue, asked)
    PROVE  /\ m.signal # "NameOwnerChanged" => Objects(l, Tail(queue), asked)
           /\ m.signal = "NameOwnerChanged" =>
                \A ask : (\A i \in 1..Len(l) : l[i].state # Unknown => l[i].path \in ask)
                         => Objects(l, Tail(queue), ask)
<1>1. ASSUME NEW i \in 1..Len(l)
      PROVE  l[i].path \in Paths /\ l[i].skip \in Nat
  <2>1. l[i] \in DeviceObject
    BY ElementOfSeq DEF Objects
  <2> QED
    BY <2>1 DEF DeviceObject, Paths
<1>2. ASSUME NEW i \in 1..Len(l)
      PROVE  /\ m.signal # "NameOwnerChanged" =>
                  Follows(l[i].path, l[i].state, l[i].skip,
                          Tail(queue), devices, state, switch, asked)
             /\ m.signal = "NameOwnerChanged" =>
                  \A ask : (l[i].state # Unknown => l[i].path \in ask) =>
                      Follows(l[i].path, l[i].state, l[i].skip,
                              Tail(queue), devices, state, switch, ask)
  <2>1. Follows(l[i].path, l[i].state, l[i].skip, queue, devices, state, switch, asked)
    BY DEF Objects
  <2> QED
    BY <1>1, <2>1, ReadFollows
<1> QED
  BY <1>2 DEF Objects
LEMMA DispatchSyncs == ASSUME SyncInv, Dispatch PROVE SyncInv'
<1> USE Constants
<1> DEFINE m == Head(queue)
           KType == [state : KillswitchState \cup {Unknown}, skip : Nat]
           KFollows(ask) == Follows(SWITCH, killswitch'.state, killswitch'.skip,
                                    Tail(queue), devices, state, switch, ask)
<1>1. /\ queue # <<>> /\ queue' = Tail(queue) /\ todo = <<>>
      /\ UNCHANGED <<daemonVars, todo, is_enumerated>> /\ UNCHANGED <<devices, state, switch>>
  BY DEF Dispatch, daemonVars
<1>2. /\ DaemonInv /\ ClientInv /\ FitQueue(queue, devices, state) /\ AllFollow
      /\ LastCurrent(queue, devices, state, switch) /\ NoneMissed /\ asked \subseteq Paths
      /\ Objects(list, queue, asked) /\ queue \in Seq(Messages)
  BY ObjectsNow DEF SyncInv, FitQueue, DaemonInv
<1>3. /\ FitQueue(queue', devices, state) /\ LastCurrent(queue', devices, state, switch)
  BY <1>1, <1>2, RestFits
<1>4. /\ m = queue[1] /\ m \in Messages /\ Fit(m, state)
      /\ m.signal = "DeviceRemoved" => ~ Contains(devices, m.path)
  <2>1. m = queue[1] /\ m \in Messages /\ 1 \in 1..Len(queue)
    BY <1>1, <1>2, Rest
  <2> QED
    BY <1>2, <2>1 DEF FitQueue
<1>5. ASSUME NEW d, Sent(queue, "DeviceAdded", d, 0)
      PROVE  \/ Sent(queue', "DeviceAdded", d, 0)
             \/ m.signal = "DeviceAdded" /\ m.path = d
  <2>1. PICK j \in 1..Len(queue) : queue[j].signal = "DeviceAdded" /\ queue[j].path = d
    BY <1>5 DEF Sent
  <2>2. CASE j = 1
    BY <1>4, <2>1, <2>2
  <2>3. CASE j > 1
    <3>1. Sent(queue, "DeviceAdded", d, 0 + 1)
      BY <2>1, <2>3 DEF Sent
    <3> QED
      BY <1>1, <1>2, <3>1, RestSent
  <2> QED
    BY <2>2, <2>3
<1>6. ASSUME asked' \subseteq Paths, Objects(list', Tail(queue), asked'),
             killswitch' \in KType, KFollows(asked'),
             is_enumerated =>
                 \A d \in Devices : /\ Contains(devices, d) /\ Known(d) => Known(d)'
                                    /\ m.signal = "DeviceAdded" /\ m.path = d => Known(d)'
      PROVE  SyncInv'
  <2>1. NoneMissed'
    <3> SUFFICES ASSUME is_enumerated, NEW d \in Devices, Contains(devices, d)
                 PROVE  Known(d)' \/ Sent(queue', "DeviceAdded", d, 0)
      BY <1>1 DEF NoneMissed
    <3>1. ~ Contains(todo, d)
      <4>1. Len(todo) = 0
        BY <1>1
      <4> QED
        BY <4>1 DEF Contains
    <3>2. Known(d) \/ Sent(queue, "DeviceAdded", d, 0)
      BY <1>2, <3>1 DEF NoneMissed
    <3> QED
      BY <1>5, <1>6, <3>2
  <2>2. /\ todo' \in Seq(Devices) /\ \A i \in 1..Len(todo') : state[todo'[i]] # 0
        /\ is_enumerated' \in BOOLEAN
    BY <1>1, <1>2 DEF ClientInv
  <2> QED
    BY <1>1, <1>3, <1>6, <2>1, <2>2, ClientKeeps
<1> HIDE DEF m, KType, KFollows
<1>7. CASE m.signal = "PropertiesChanged" /\ changed_cb(m.path, m.value) /\ UNCHANGED asked
  <2>1. /\ Objects(list', Tail(queue), asked)
        /\ Len(list') = Len(list) /\ \A i \in 1..Len(list) : list'[i].path = list[i].path
        /\ killswitch' \in KType /\ KFollows(asked)
    BY <1>1, <1>7, ChangeRead DEF m, KType, KFollows
  <2>2. \A d : Known(d) => Known(d)'
    <3>1. DOMAIN list = 1..Len(list) /\ DOMAIN list' = 1..Len(list')
      BY <1>2, <2>1, LenProperties DEF Objects
    <3> QED
      BY <2>1, <3>1 DEF Known
  <2> QED
    BY <1>2, <1>6, <1>7, <2>1, <2>2
\* The killswitch of a signal that is not a change of its own.
<1>8. ASSUME m.signal # "PropertiesChanged", UNCHANGED killswitch,
             NEW ask, \/ m.signal # "NameOwnerChanged" /\ ask = asked
                      \/ m.signal = "NameOwnerChanged"
                         /\ (killswitch.state # Unknown => SWITCH \in ask)
      PROVE  killswitch' \in KType /\ KFollows(ask)
  <2>1. /\ killswitch \in KType /\ killswitch.skip \in Nat
        /\ Follows(SWITCH, killswitch.state, killswitch.skip,
                   queue, devices, state, switch, asked)
    BY <1>2 DEF ClientInv, AllFollow, KType
  <2>2. Follows(SWITCH, killswitch.state, killswitch.skip,
                Tail(queue), devices, state, switch, ask)
    <3>1. CASE m.signal # "NameOwnerChanged" /\ ask = asked
      BY <1>1, <1>8, <2>1, <3>1, ReadFollows DEF m, Paths
    <3>2. CASE m.signal = "NameOwnerChanged" /\ (killswitch.state # Unknown => SWITCH \in ask)
      BY <1>1, <2>1, <3>2, ReadFollows DEF m, Paths
    <3> QED
      BY <1>8, <3>1, <3>2
  <2> QED
    BY <1>8, <2>1, <2>2 DEF KFollows
<1>9. CASE m.signal = "NameOwnerChanged" /\ name_owner_changed
  <2>1. /\ asked' = {p \in Paths : \/ p = SWITCH /\ killswitch.state # Unknown
                                   \/ \E i \in DOMAIN list : list[i].path = p
                                                             /\ list[i].state # Unknown}
        /\ killswitch' = IF killswitch.state = Unknown THEN killswitch
                         ELSE [killswitch EXCEPT !.state = UNBLOCKED]
        /\ UNCHANGED list
    BY <1>9 DEF name_owner_changed
  <2>2. \A i \in 1..Len(list) : list[i].state # Unknown => list[i].path \in asked'
    <3>1. \A i \in 1..Len(list) : i \in DOMAIN list /\ list[i].path \in Paths
      <4>1. \A i \in 1..Len(list) : list[i] \in DeviceObject
        BY <1>2, ElementOfSeq DEF Objects
      <4>2. DOMAIN list = 1..Len(list)
        BY <1>2, LenProperties DEF Objects
      <4> QED
        BY <4>1, <4>2 DEF DeviceObject, Paths
    <3> QED
      BY <2>1, <3>1
  <2>3. Objects(list, Tail(queue), asked')
    BY <1>1, <1>2, <1>9, <2>2, OthersRead DEF m
  <2>4. killswitch' \in KType /\ KFollows(asked')
    <3>1. /\ killswitch \in KType /\ killswitch.skip \in Nat
          /\ Follows(SWITCH, killswitch.state, killswitch.skip,
                     queue, devices, state, switch, asked)
      BY <1>2 DEF ClientInv, AllFollow, KType
    <3>2. /\ killswitch' \in KType /\ killswitch'.skip = killswitch.skip
          /\ killswitch'.state # Unknown => killswitch.state # Unknown
      BY <2>1, <3>1 DEF KType
    <3>3. killswitch'.state # Unknown => SWITCH \in asked'
      BY <2>1, <3>2 DEF Paths
    <3> DEFINE w == killswitch'.state
               k == killswitch'.skip
               ask == asked'
    <3>4. Follows(SWITCH, w, k, Tail(queue), devices, state, switch, ask)
      <4>1. /\ SWITCH \in Paths /\ k \in Nat /\ (w # Unknown => SWITCH \in ask)
            /\ Follows(SWITCH, killswitch.state, k, queue, devices, state, switch, asked)
        BY <3>1, <3>2, <3>3 DEF Paths
      <4> HIDE DEF w, k, ask
      <4> QED
        BY <1>1, <1>9, <4>1, ReadFollows DEF m
    <3> QED
      BY <3>2, <3>4 DEF KFollows
  <2>5. \A d : Known(d) => Known(d)'
    BY <2>1 DEF Known
  <2>6. asked' \subseteq Paths
    BY <2>1
  <2> QED
    BY <1>6, <1>9, <2>1, <2>3, <2>4, <2>5, <2>6
<1>10. CASE proxy_signal_cb(m) /\ UNCHANGED <<asked, killswitch>>
  <2>1. m.signal \in {"DeviceAdded", "DeviceRemoved", "DeviceChanged"}
    BY <1>10 DEF proxy_signal_cb
  <2>2. m.path \in Devices
    BY <1>4, <2>1 DEF Fit, Messages, Paths
  <2>3. killswitch' \in KType /\ KFollows(asked)
    BY <1>8, <1>10, <2>1
  <2>4. ASSUME Objects(list', queue, asked) PROVE Objects(list', Tail(queue), asked)
    BY <1>1, <2>1, <2>4, OthersRead DEF m
  <2>5. CASE UNCHANGED list /\ (~ is_enumerated \/ m.signal = "DeviceChanged")
    <3>1. Objects(list', queue, asked) /\ \A d : Known(d) => Known(d)'
      BY <1>2, <2>5 DEF Known
    <3> QED
      BY <1>2, <1>6, <1>10, <2>3, <2>4, <2>5, <3>1
  <2>6. CASE m.signal = "DeviceAdded" /\ Known(m.path) /\ UNCHANGED list
    <3>1. Objects(list', queue, asked) /\ \A d : Known(d) => Known(d)'
      BY <1>2, <2>6 DEF Known
    <3> QED
      BY <1>2, <1>6, <1>10, <2>3, <2>4, <2>6, <3>1
  <2>7. CASE m.signal = "DeviceAdded" /\ add(m.path)
    <3>1. state[m.path] # 0
      BY <1>4, <2>2 DEF Fit
    <3>2. Objects(list', queue, asked) /\ \A p : Known(p)' <=> Known(p) \/ p = m.path
      BY <2>2, <2>7, <3>1, AddedFollows
    <3> QED
      BY <1>2, <1>6, <1>10, <2>3, <2>4, <2>7, <3>2
  <2>8. CASE m.signal = "DeviceRemoved" /\ device_removed(m.path)
    <3>1. CASE list' = list
      <4>1. Objects(list', queue, asked) /\ \A d : Known(d) => Known(d)'
        BY <1>2, <3>1 DEF Known
      <4> QED
        BY <1>2, <1>6, <1>10, <2>3, <2>4, <2>8, <4>1
    <3>2. CASE \E k \in 1..Len(list) :
                 /\ list[k].path = m.path
                 /\ list' \in Seq(DeviceObject) /\ Without(list', list, k)
      <4>1. PICK k \in 1..Len(list) :
                 /\ list[k].path = m.path
                 /\ list' \in Seq(DeviceObject) /\ Without(list', list, k)
        BY <3>2
      <4>2. Objects(list', queue, asked)
        BY <1>2, <4>1 DEF Objects, Without
      <4>3. ASSUME NEW d, d # m.path, Known(d) PROVE Known(d)'
        <5>1. DOMAIN list = 1..Len(list) /\ DOMAIN list' = 1..Len(list')
          BY <1>2, <4>1, LenProperties DEF Objects
        <5>2. PICK i \in 1..Len(list) : list[i].path = d
          BY <4>3, <5>1 DEF Known
        <5>3. i # k
          BY <4>1, <4>3, <5>2
        <5>4. \E j \in 1..Len(list') : list'[j] = list[i]
          BY <4>1, <5>3 DEF Without
        <5> QED
          BY <5>1, <5>2, <5>4 DEF Known
      <4>4. ~ Contains(devices, m.path)
        BY <1>4, <2>8
      <4> QED
        BY <1>2, <1>6, <1>10, <2>3, <2>4, <2>8, <4>2, <4>3, <4>4
    <3> QED
      BY <1>2, <2>8, <3>1, <3>2, LeavesClient DEF Objects
  <2> QED
    BY <1>10, <2>5, <2>6, <2>7, <2>8 DEF proxy_signal_cb, device_added
<1> QED
  BY <1>7, <1>9, <1>10 DEF Dispatch, m
-----------------------------------------------------------------------------
(* Types and states.                                                       *)

\* The devices that are there at first, each once.
LEMMA PresentDevices ==
    ASSUME NEW present \in SUBSET Devices
    PROVE  /\ SetToSeq(present) \in Seq(Devices) /\ Injective(SetToSeq(present))
           /\ \A d : Contains(SetToSeq(present), d) => d \in present
<1> DEFINE n == Cardinality(present)
           s == SetToSeq(present)
<1>1. IsFiniteSet(present)
  BY ClientAssumption, FS_Subset
<1>2. n \in Nat /\ ExistsBijection(1..n, present)
  BY <1>1, FS_CardinalityType
<1> HIDE DEF n
<1>3. \E f \in [1..n -> present] : IsInjective(f)
  <2>1. PICK f \in Bijection(1..n, present) : TRUE
    BY <1>2 DEF ExistsBijection
  <2> QED
    BY <2>1 DEF Bijection, Injection, IsInjective
<1>4. s \in [1..n -> present] /\ IsInjective(s)
  BY <1>3 DEF SetToSeq, n
<1> HIDE DEF s
<1>5. s \in Seq(present) /\ Len(s) = n
  BY <1>2, <1>4, SeqDef, LenProperties
<1>6. s \in Seq(Devices)
  BY <1>5, SeqMonotonic
<1>7. Injective(s)
  BY <1>2, <1>4, <1>5 DEF Injective, IsInjective
<1>8. \A d : Contains(s, d) => d \in present
  BY <1>4, <1>5 DEF Contains
<1> QED
  BY <1>6, <1>7, <1>8 DEF s

LEMMA SyncBegins == ASSUME Init PROVE SyncInv
<1> USE Constants
<1>1. PICK present \in SUBSET Devices :
          /\ devices = SetToSeq(present)
          /\ state = [d \in Devices |-> IF d \in present THEN 2 ELSE 0]
  BY DEF Init
<1>2. /\ queue = <<>> /\ asked = {} /\ list = <<>> /\ todo = <<>> /\ is_enumerated = FALSE
      /\ switch = StateOf(devices, state) /\ killswitch = [state |-> Unknown, skip |-> 0]
  BY DEF Init
<1>3. DaemonInv
  BY <1>1, <1>2, PresentDevices DEF DaemonInv
<1>4. ClientInv /\ Len(queue) = 0 /\ Len(list) = 0
  <2>1. <<>> \in Seq(DeviceObject) /\ <<>> \in Seq(Devices) /\ Len(<<>>) = 0
    BY EmptySeq
  <2>2. list \in Seq(DeviceObject) /\ Len(list) = 0 /\ todo \in Seq(Devices) /\ Len(todo) = 0
    BY <1>2, <2>1
  <2>3. killswitch \in [state : KillswitchState \cup {Unknown}, skip : Nat]
    BY <1>2
  <2>4. Len(queue) = 0 /\ is_enumerated \in BOOLEAN
    BY <1>2, <2>1
  <2> QED
    BY <2>2, <2>3, <2>4 DEF ClientInv
<1>5. FitQueue(queue, devices, state) /\ LastCurrent(queue, devices, state, switch)
  <2>1. <<>> \in Seq(Messages)
    BY EmptySeq
  <2> QED
    BY <1>2, <1>4, <2>1 DEF FitQueue, LastCurrent
<1>6. AllFollow
  <2>1. Changes(queue, SWITCH) = {}
    BY <1>4 DEF Changes
  <2>2. Cardinality(Changes(queue, SWITCH)) = 0
    BY <2>1, FS_EmptySet
  <2> QED
    BY <1>2, <1>4, <2>2 DEF AllFollow, Follows
<1>7. NoneMissed
  BY <1>2 DEF NoneMissed
<1> QED
  BY <1>3, <1>4, <1>5, <1>6, <1>7 DEF SyncInv

LEMMA SyncStays == ASSUME SyncInv, [Next]_vars PROVE SyncInv'
<1>1. CASE Change
  <2>1. PICK d \in Devices : Plug(d) \/ device_changed_cb(d) \/ device_removed_cb(d)
    BY <1>1 DEF Change
  <2>2. UNCHANGED <<asked, clientVars>>
    BY <1>1 DEF Change
  <2>3. \E ms : Report(ms)
    BY <2>1, <2>2, PlugReports, ChangedReports, RemovedReports
  <2> QED
    BY <2>3, ReportKeeps
<1>2. CASE Restart
  BY <1>2, RestartReports, ReportKeeps
<1>3. CASE GetAll
  BY <1>3, GetAllReports, ReportKeeps
<1>4. CASE enumerate_devices_sync
  BY <1>4, EnumerateKeeps
<1>5. CASE get_devices_private
  BY <1>5, GetDeviceKeeps
<1>6. CASE urf_killswitch_new
  BY <1>6, KillswitchKeeps
<1>7. CASE Dispatch
  BY <1>7, DispatchSyncs
<1>8. CASE UNCHANGED vars
  <2>1. UNCHANGED <<devices, state, switch, queue, asked, list, todo, is_enumerated, killswitch>>
    BY <1>8 DEF vars, daemonVars, clientVars
  <2> QED
    BY <2>1 DEF SyncInv, DaemonInv, ClientInv, AllFollow, NoneMissed, Known
<1> QED
  BY <1>1, <1>2, <1>3, <1>4, <1>5, <1>6, <1>7, <1>8 DEF Next

LEMMA Synchronized == Spec => []SyncInv
<1>1. Init => SyncInv
  BY SyncBegins
<1>2. SyncInv /\ [Next]_vars => SyncInv'
  BY SyncStays
<1> QED
  BY <1>1, <1>2, PTL DEF Spec

\* The types of the variables, and no object misses more property changes than wait.
THEOREM ClientTypes == Spec => []TypeOK
<1>1. SyncInv => TypeOK
  <2> SUFFICES ASSUME SyncInv PROVE TypeOK
    OBVIOUS
  <2>1. /\ DaemonInv /\ ClientInv /\ AllFollow /\ queue \in Seq(Messages)
    BY DEF SyncInv, FitQueue
  <2>2. switch \in KillswitchState
    BY <2>1, SwitchState DEF DaemonInv
  <2>3. /\ \A i \in DOMAIN list : list[i].skip <= Waiting(list[i].path)
        /\ killswitch.skip <= Waiting(SWITCH)
    <3>1. DOMAIN list = 1..Len(list)
      BY <2>1, LenProperties DEF ClientInv
    <3>2. \A p : Waiting(p) = Cardinality(Changes(queue, p))
      BY <2>1, WaitingChanges
    <3> QED
      BY <2>1, <3>1, <3>2 DEF AllFollow, Follows
  <2> QED
    BY <2>1, <2>2, <2>3 DEF DaemonInv, ClientInv, TypeOK, DeviceObject, Messages
<1> QED
  BY <1>1, Synchronized, PTL

\* Once every message is handled and every property asked for is there, each object of
\* a device that the daemon has, and the killswitch, has the state of the daemon.
THEOREM StatesAgree == Spec => []StatesCurrent
<1>1. SyncInv => StatesCurrent
  <2> SUFFICES ASSUME SyncInv, queue = <<>>, asked = {}
               PROVE  /\ \A i \in DOMAIN list : Contains(devices, list[i].path)
                                                => list[i].state = state[list[i].path]
                      /\ killswitch.state # Unknown /\ devices # <<>> => killswitch.state = switch
    BY DEF StatesCurrent
  <2>1. ClientInv /\ AllFollow /\ Len(queue) = 0
    BY DEF SyncInv
  <2>2. \A p : Cardinality(Changes(queue, p)) = 0
    <3>1. \A p : Changes(queue, p) = {}
      BY <2>1 DEF Changes
    <3> QED
      BY <3>1, FS_EmptySet
  <2>3. ASSUME NEW p, NEW v, NEW skip \in Nat, v # Unknown, Live(p, devices),
               Follows(p, v, skip, queue, devices, state, switch, asked)
        PROVE  v = Value(p, state, switch)
    BY <2>1, <2>2, <2>3 DEF Follows
  <2>4. ASSUME NEW i \in DOMAIN list, Contains(devices, list[i].path)
        PROVE  list[i].state = state[list[i].path]
    <3>1. i \in 1..Len(list) /\ list[i] \in DeviceObject
      BY <2>1, LenProperties, ElementOfSeq DEF ClientInv
    <3>2. /\ list[i].path \in Devices /\ list[i].path # SWITCH /\ list[i].skip \in Nat
          /\ list[i].state # Unknown
      BY <2>1, <2>4, <3>1, Constants DEF DeviceObject, ClientInv
    <3>3. Live(list[i].path, devices)
      BY <2>4, <3>2 DEF Live
    <3>4. list[i].state = Value(list[i].path, state, switch)
      BY <2>1, <2>3, <3>1, <3>2, <3>3 DEF AllFollow
    <3> QED
      BY <3>2, <3>4 DEF Value
  <2>5. ASSUME killswitch.state # Unknown, devices # <<>> PROVE killswitch.state = switch
    <3>1. killswitch.skip \in Nat /\ Live(SWITCH, devices)
      BY <2>1, <2>5 DEF ClientInv, Live
    <3> QED
      BY <2>1, <2>3, <2>5, <3>1 DEF AllFollow, Value
  <2> QED
    BY <2>4, <2>5
<1> QED
  BY <1>1, Synchronized, PTL
-----------------------------------------------------------------------------
(* The list.                                                               *)

\* A device that is there, or will be said to be removed.
There(p, i) == Contains(devices, p) \/ Sent(queue, "DeviceRemoved", p, i)

\* What is announced and goes is said to be removed later.
AddedThere ==
    \A i \in 1..Len(queue) : queue[i].signal = "DeviceAdded" => There(queue[i].path, i)

\* After the first enumeration, each device is in the list or will be, once.
Once ==
    /\ \A i, j \in 1..Len(list) : list[i].path = list[j].path => i = j
    /\ Injective(todo)
    /\ \A i \in 1..Len(list) : ~ Contains(todo, list[i].path) /\ There(list[i].path, 0)
    /\ \A i \in 1..Len(todo) : There(todo[i], 0)

OnceInv ==
    /\ restarts \in Nat /\ enumerations \in Nat
    /\ enumerations = 0 => list = <<>> /\ todo = <<>> /\ is_enumerated = FALSE
    /\ enumerations # 0 => is_enumerated \/ todo # <<>>
    /\ restarts = 0 => AddedThere /\ (enumerations = 1 => Once)

LEMMA OnceBegins == ASSUME Init PROVE OnceInv
<1>1. /\ queue = <<>> /\ list = <<>> /\ todo = <<>> /\ is_enumerated = FALSE
      /\ restarts = 0 /\ enumerations = 0
  BY DEF Init
<1>2. Len(queue) = 0
  BY <1>1
<1> QED
  BY <1>1, <1>2 DEF OnceInv, AddedThere

LEMMA ReportOnce ==
    ASSUME SyncInv, OnceInv, NEW ms, Report(ms), Orderly(ms), UNCHANGED <<restarts, enumerations>>
    PROVE  OnceInv'
<1>1. /\ queue \in Seq(Messages) /\ ms \in Seq(Messages) /\ queue' = queue \o ms
      /\ UNCHANGED <<list, todo, is_enumerated>>
      /\ FitQueue(queue, devices, state) /\ ClientInv
  BY DEF SyncInv, FitQueue, Report, clientVars
<1>2. Joins(queue', queue, ms)
  BY <1>1, Joined
<1>3. ASSUME NEW p \in Devices, NEW i \in 0..Len(queue), There(p, i) PROVE There(p, i)'
  <2>1. CASE Sent(queue, "DeviceRemoved", p, i)
    <3>1. Sent(queue', "DeviceRemoved", p, i)
      BY <1>2, <2>1 DEF Sent, Joins
    <3> QED
      BY <3>1 DEF There
  <2>2. CASE Contains(devices, p) /\ ~ Contains(devices', p)
    <3>1. PICK j \in 1..Len(ms) : ms[j].signal = "DeviceRemoved" /\ ms[j].path = p
      BY <2>2 DEF Orderly, Sent
    <3>2. Len(queue) + j \in 1..Len(queue') /\ Len(queue) + j > i /\ queue'[Len(queue) + j] = ms[j]
      BY <1>2 DEF Joins
    <3>3. Sent(queue', "DeviceRemoved", p, i)
      BY <3>1, <3>2 DEF Sent
    <3> QED
      BY <3>3 DEF There
  <2>3. CASE Contains(devices', p)
    BY <2>3 DEF There
  <2> QED
    BY <1>3, <2>1, <2>2, <2>3 DEF There
<1>4. ASSUME AddedThere PROVE AddedThere'
  <2> SUFFICES ASSUME NEW i \in 1..Len(queue'), queue'[i].signal = "DeviceAdded"
               PROVE  There(queue[i].path, i)'
    BY DEF AddedThere
  <2>1. CASE i \in 1..Len(queue)
    <3>1. queue'[i] = queue[i] /\ queue[i] \in Messages /\ Fit(queue[i], state)
      BY <1>1, <1>2, <2>1, ElementOfSeq DEF Joins, FitQueue
    <3>2. queue[i].path \in Devices /\ There(queue[i].path, i) /\ i \in 0..Len(queue)
      BY <1>2, <1>4, <2>1, <3>1 DEF AddedThere, Fit, Messages, Paths, Joins
    <3>3. There(queue[i].path, i) => Contains(devices', queue[i].path)
                                     \/ Sent(queue', "DeviceRemoved", queue[i].path, i)
      BY <1>3, <3>2 DEF There
    <3> QED
      BY <3>1, <3>2, <3>3 DEF There
  <2>2. CASE \E j \in 1..Len(ms) : i = Len(queue) + j
    <3>1. PICK j \in 1..Len(ms) : i = Len(queue) + j
      BY <2>2
    <3>2. queue'[i] = ms[j]
      BY <1>2, <3>1 DEF Joins
    <3>3. Contains(devices', queue'[i].path)
      BY <3>2 DEF Orderly
    <3> QED
      BY <3>3 DEF There
  <2> QED
    BY <1>2, <2>1, <2>2 DEF Joins
<1>5. ASSUME Once PROVE Once'
  <2>1. ASSUME NEW i \in 1..Len(list) PROVE There(list[i].path, 0)'
    <3>1. list[i].path \in Devices
      <4>1. list[i] \in DeviceObject
        BY <1>1, ElementOfSeq DEF ClientInv
      <4> QED
        BY <4>1 DEF DeviceObject
    <3>2. There(list[i].path, 0) /\ 0 \in 0..Len(queue)
      BY <1>2, <1>5 DEF Once, Joins
    <3>3. Contains(devices', list[i].path) \/ Sent(queue', "DeviceRemoved", list[i].path, 0)
      BY <1>3, <3>1, <3>2 DEF There
    <3> QED
      BY <1>1, <3>3 DEF There
  <2>2. ASSUME NEW i \in 1..Len(todo) PROVE There(todo[i], 0)'
    <3>1. todo[i] \in Devices
      BY <1>1, ElementOfSeq DEF ClientInv
    <3>2. There(todo[i], 0) /\ 0 \in 0..Len(queue)
      BY <1>2, <1>5 DEF Once, Joins
    <3>3. Contains(devices', todo[i]) \/ Sent(queue', "DeviceRemoved", todo[i], 0)
      BY <1>3, <3>1, <3>2 DEF There
    <3> QED
      BY <1>1, <3>3 DEF There
  <2> QED
    BY <1>1, <1>5, <2>1, <2>2 DEF Once
<1> QED
  BY <1>1, <1>4, <1>5 DEF OnceInv
LEMMA EnumerateOnce == ASSUME SyncInv, OnceInv, enumerate_devices_sync PROVE OnceInv'
<1>1. /\ UNCHANGED <<devices, queue, list, restarts>> /\ todo' = devices
      /\ is_enumerated' = (is_enumerated \/ devices = <<>>)
      /\ enumerations' = enumerations + 1
  BY DEF enumerate_devices_sync, daemonVars
<1>2. enumerations \in Nat /\ enumerations' \in Nat /\ enumerations' # 0
      /\ (enumerations' = 1 => enumerations = 0) /\ restarts \in Nat
  BY <1>1 DEF OnceInv
<1>3. ASSUME enumerations = 0 PROVE Once'
  <2>1. Len(list') = 0 /\ Injective(devices)
    <3>1. list = <<>>
      BY <1>3 DEF OnceInv
    <3> QED
      BY <1>1, <3>1 DEF SyncInv, DaemonInv
  <2>2. \A i \in 1..Len(devices) : Contains(devices, devices[i])
    BY DEF Contains
  <2> QED
    BY <1>1, <2>1, <2>2 DEF Once, There
<1>4. AddedThere => AddedThere'
  BY <1>1 DEF AddedThere, There
<1> QED
  BY <1>1, <1>2, <1>3, <1>4 DEF OnceInv

LEMMA GetDeviceOnce == ASSUME SyncInv, OnceInv, get_devices_private PROVE OnceInv'
<1>1. /\ UNCHANGED <<devices, queue, restarts, enumerations>>
      /\ todo # <<>> /\ add(Head(todo)) /\ todo' = Tail(todo)
      /\ is_enumerated' = (is_enumerated \/ Tail(todo) = <<>>)
  BY DEF get_devices_private, daemonVars, history
<1>2. /\ todo \in Seq(Devices) /\ Len(todo) \in Nat \ {0} /\ Len(Tail(todo)) = Len(todo) - 1
      /\ \A i \in 1..Len(Tail(todo)) : Tail(todo)[i] = todo[i + 1]
      /\ Head(todo) = todo[1] /\ Head(todo) \in Devices /\ state[todo[1]] # 0
  <2>1. todo \in Seq(Devices) /\ todo # <<>>
    BY <1>1 DEF SyncInv, ClientInv
  <2>2. Len(todo) \in Nat \ {0}
    BY <2>1, EmptySeq
  <2>3. 1 \in 1..Len(todo)
    BY <2>2
  <2>4. state[todo[1]] # 0
    BY <2>3 DEF SyncInv, ClientInv
  <2> QED
    BY <2>1, <2>2, <2>4, HeadTailProperties
<1>3. /\ Len(list') = Len(list) + 1 /\ list'[Len(list) + 1].path = todo[1] /\ Len(list) \in Nat
      /\ \A i \in 1..Len(list) : list'[i] = list[i]
  BY <1>1, <1>2, AddedFollows, LenProperties DEF SyncInv, ClientInv
<1>4. ASSUME Once PROVE Once'
  <2>1. /\ \A i, j \in 1..Len(list) : list[i].path = list[j].path => i = j
        /\ \A i, j \in 1..Len(todo) : todo[i] = todo[j] => i = j
        /\ \A i \in 1..Len(list) : ~ Contains(todo, list[i].path) /\ There(list[i].path, 0)
        /\ \A i \in 1..Len(todo) : There(todo[i], 0)
    BY <1>4 DEF Once, Injective
  <2>2. /\ \A i \in 1..Len(todo') : i + 1 \in 1..Len(todo) /\ todo'[i] = todo[i + 1]
        /\ 1 \in 1..Len(todo)
        /\ \A i, j \in 1..Len(todo') : i + 1 = j + 1 => i = j
    BY <1>1, <1>2
  <2>3. \A i \in 1..Len(list') : i \in 1..Len(list) \/ i = Len(list) + 1
    BY <1>3
  <2>4. \A i \in 1..Len(list) : list[i].path # todo[1]
    BY <2>1, <2>2 DEF Contains
  <2>5. \A d : Contains(todo', d) => Contains(todo, d) /\ d # todo[1]
    <3>1. \A i \in 1..Len(todo') : todo[i + 1] # todo[1]
      <4> SUFFICES ASSUME NEW i \in 1..Len(todo'), todo[i + 1] = todo[1] PROVE FALSE
        OBVIOUS
      <4>1. i + 1 = 1
        BY <2>1, <2>2
      <4> QED
        BY <1>1, <1>2, <4>1
    <3> QED
      BY <2>2, <3>1 DEF Contains
  <2>6. \A i, j \in 1..Len(list') : list'[i].path = list'[j].path => i = j
    BY <1>3, <2>1, <2>3, <2>4
  <2>7. Injective(todo')
    BY <2>1, <2>2 DEF Injective
  <2>8. \A i \in 1..Len(list') : ~ Contains(todo', list'[i].path) /\ There(list'[i].path, 0)
    BY <1>3, <2>1, <2>2, <2>3, <2>5
  <2>9. \A i \in 1..Len(todo') : There(todo'[i], 0)
    BY <2>1, <2>2
  <2> QED
    BY <1>1, <2>6, <2>7, <2>8, <2>9 DEF Once, There
<1>5. AddedThere => AddedThere'
  BY <1>1 DEF AddedThere, There
<1>6. enumerations # 0
  BY <1>1 DEF OnceInv
<1> QED
  BY <1>1, <1>4, <1>5, <1>6 DEF OnceInv

LEMMA DispatchOnce == ASSUME SyncInv, OnceInv, Dispatch PROVE OnceInv'
<1> DEFINE m == Head(queue)
<1>1. /\ queue # <<>> /\ queue' = Tail(queue) /\ todo = <<>>
      /\ UNCHANGED <<devices, todo, is_enumerated, restarts, enumerations>>
  BY DEF Dispatch, daemonVars, history
<1>2. /\ queue \in Seq(Messages) /\ FitQueue(queue, devices, state)
      /\ list \in Seq(DeviceObject) /\ Len(list) \in Nat
      /\ DOMAIN list = 1..Len(list)
  BY LenProperties DEF SyncInv, FitQueue, ClientInv
<1>3. /\ m = queue[1] /\ m \in Messages /\ 1 \in 1..Len(queue) /\ Fit(m, state)
      /\ Len(queue') = Len(queue) - 1 /\ Len(queue) \in Nat
      /\ \A i \in 1..Len(queue') : queue'[i] = queue[i + 1] /\ i + 1 \in 1..Len(queue)
  <2>1. m = queue[1] /\ m \in Messages /\ 1 \in 1..Len(queue)
    BY <1>1, <1>2, Rest
  <2> QED
    BY <1>1, <1>2, <2>1, Rest DEF FitQueue
<1>4. ASSUME NEW p, NEW i \in Nat,
             \/ There(p, i + 1)
             \/ i = 0 /\ There(p, 0) /\ ~ (m.signal = "DeviceRemoved" /\ m.path = p)
      PROVE  Contains(devices, p) \/ Sent(queue', "DeviceRemoved", p, i)
  <2>1. CASE Contains(devices, p)
    BY <2>1
  <2>2. CASE Sent(queue, "DeviceRemoved", p, i + 1)
    BY <1>1, <1>2, <2>2, RestSent
  <2>3. CASE /\ i = 0 /\ Sent(queue, "DeviceRemoved", p, 0)
             /\ ~ (m.signal = "DeviceRemoved" /\ m.path = p)
    <3>1. PICK j \in 1..Len(queue) : queue[j].signal = "DeviceRemoved" /\ queue[j].path = p
      BY <2>3 DEF Sent
    <3>2. j > 1
      BY <1>3, <2>3, <3>1
    <3>3. Sent(queue, "DeviceRemoved", p, i + 1)
      BY <2>3, <3>1, <3>2 DEF Sent
    <3> QED
      BY <1>1, <1>2, <3>3, RestSent
  <2> QED
    BY <1>4, <2>1, <2>2, <2>3 DEF There
<1>5. ASSUME AddedThere PROVE AddedThere'
  <2> SUFFICES ASSUME NEW i \in 1..Len(queue'), queue'[i].signal = "DeviceAdded"
               PROVE  There(queue[i].path, i)'
    BY DEF AddedThere
  <2>1. queue'[i] = queue[i + 1] /\ There(queue[i + 1].path, i + 1) /\ i \in Nat
    BY <1>3, <1>5 DEF AddedThere
  <2>2. Contains(devices, queue[i + 1].path) \/ Sent(queue', "DeviceRemoved", queue[i + 1].path, i)
    BY <1>4, <2>1
  <2> QED
    BY <1>1, <2>1, <2>2 DEF There
\* The paths of the list are among those that were there.
<1>6. ASSUME Once,
             \A i, j \in 1..Len(list') : list'[i].path = list'[j].path => i = j,
             \A i \in 1..Len(list') :
                 \/ There(list'[i].path, 1)
                 \/ /\ There(list'[i].path, 0)
                    /\ ~ (m.signal = "DeviceRemoved" /\ m.path = list'[i].path)
      PROVE  Once'
  <2>1. \A i \in 1..Len(list') : Contains(devices, list'[i].path)
                                 \/ Sent(queue', "DeviceRemoved", list'[i].path, 0)
    <3> SUFFICES ASSUME NEW i \in 1..Len(list')
                 PROVE  Contains(devices, list'[i].path)
                        \/ Sent(queue', "DeviceRemoved", list'[i].path, 0)
      OBVIOUS
    <3> DEFINE p == list'[i].path
    <3>1. \/ There(p, 0 + 1)
          \/ There(p, 0) /\ ~ (m.signal = "DeviceRemoved" /\ m.path = p)
      BY <1>6
    <3> HIDE DEF p, m
    <3>2. Contains(devices, p) \/ Sent(queue', "DeviceRemoved", p, 0)
      BY <1>4, <3>1
    <3> QED
      BY <3>2 DEF p
  <2>2. Len(todo') = 0
    BY <1>1
  <2> QED
    BY <1>1, <1>6, <2>1, <2>2 DEF Once, There, Injective, Contains
<1> HIDE DEF m
<1>7. ASSUME restarts = 0, enumerations = 1 PROVE Once'
  <2>1. Once /\ is_enumerated /\ AddedThere
    BY <1>1, <1>7 DEF OnceInv
  <2>2. /\ \A i, j \in 1..Len(list) : list[i].path = list[j].path => i = j
        /\ \A i \in 1..Len(list) : There(list[i].path, 0)
    BY <2>1 DEF Once
  <2>3. CASE /\ Len(list') = Len(list) /\ \A i \in 1..Len(list) : list'[i].path = list[i].path
             /\ m.signal # "DeviceRemoved"
    BY <1>6, <2>1, <2>2, <2>3
  <2>4. CASE m.signal = "PropertiesChanged" /\ changed_cb(m.path, m.value)
    BY <1>1, <2>3, <2>4, ChangeRead DEF m
  <2>5. CASE m.signal = "NameOwnerChanged" /\ name_owner_changed
    BY <2>3, <2>5 DEF name_owner_changed
  <2>6. CASE m.signal \in {"DeviceAdded", "DeviceChanged"} /\ UNCHANGED list
    BY <2>3, <2>6
  <2>7. CASE m.signal = "DeviceAdded" /\ ~ Known(m.path) /\ add(m.path)
    <3>1. m.path \in Devices /\ state[m.path] # 0
      BY <1>3, <2>7 DEF Fit, Messages, Paths
    <3>2. /\ Len(list') = Len(list) + 1 /\ list'[Len(list) + 1].path = m.path
          /\ \A i \in 1..Len(list) : list'[i] = list[i]
      BY <2>7, <3>1, AddedFollows
    <3>3. \A i \in 1..Len(list') : i \in 1..Len(list) \/ i = Len(list) + 1
      BY <1>2, <3>2
    <3>4. \A i \in 1..Len(list) : list[i].path # m.path
      BY <1>2, <2>7 DEF Known
    <3>5. There(m.path, 1)
      BY <1>3, <2>1, <2>7 DEF AddedThere
    <3>6. \A i, j \in 1..Len(list') : list'[i].path = list'[j].path => i = j
      BY <2>2, <3>2, <3>3, <3>4
    <3> QED
      BY <1>6, <2>1, <2>2, <2>7, <3>2, <3>3, <3>5, <3>6
  <2>8. CASE m.signal = "DeviceRemoved" /\ device_removed(m.path)
    <3>1. CASE list' = list /\ ~ Known(m.path)
      <4>1. \A i \in 1..Len(list) : list[i].path # m.path
        BY <1>2, <3>1 DEF Known
      <4> QED
        BY <1>6, <2>1, <2>2, <3>1, <4>1
    <3>2. CASE \E k \in 1..Len(list) :
                 /\ list[k].path = m.path
                 /\ list' \in Seq(DeviceObject) /\ Without(list', list, k)
      <4>1. PICK k \in 1..Len(list) : list[k].path = m.path /\ Without(list', list, k)
        BY <3>2
      <4>2. \A j \in 1..Len(list') :
              /\ Was(k, j) \in 1..Len(list) /\ Was(k, j) # k /\ list'[j] = list[Was(k, j)]
              /\ \A i \in 1..Len(list') : Was(k, i) = Was(k, j) => i = j
        BY <4>1 DEF Without
      <4>3. \A i, j \in 1..Len(list') : list'[i].path = list'[j].path => i = j
        BY <2>2, <4>2
      <4>4. \A i \in 1..Len(list') : There(list'[i].path, 0) /\ list'[i].path # m.path
        BY <2>2, <4>1, <4>2
      <4> QED
        BY <1>6, <2>1, <4>3, <4>4
    <3> QED
      BY <1>2, <2>8, <3>1, <3>2, LeavesClient
  <2> QED
    BY <2>1, <2>4, <2>5, <2>6, <2>7, <2>8 DEF Dispatch, proxy_signal_cb, device_added, m
<1>8. ASSUME enumerations = 0 PROVE list' = <<>>
  <2>1. list = <<>> /\ ~ is_enumerated
    BY <1>8 DEF OnceInv
  <2>2. CASE UNCHANGED list
    BY <2>1, <2>2
  <2>3. CASE changed_cb(m.path, m.value)
    BY <2>1, <2>3 DEF changed_cb
  <2> QED
    BY <2>1, <2>2, <2>3 DEF Dispatch, proxy_signal_cb, name_owner_changed, m
<1> QED
  BY <1>1, <1>5, <1>7, <1>8 DEF OnceInv
LEMMA OnceStays == ASSUME SyncInv, OnceInv, [Next]_vars PROVE OnceInv'
<1>1. CASE Change
  <2>1. PICK d \in Devices : Plug(d) \/ device_changed_cb(d) \/ device_removed_cb(d)
    BY <1>1 DEF Change
  <2>2. UNCHANGED <<asked, clientVars, restarts, enumerations>>
    BY <1>1 DEF Change
  <2>3. \E ms : Report(ms) /\ Orderly(ms)
    BY <2>1, <2>2, PlugReports, ChangedReports, RemovedReports
  <2> QED
    BY <2>2, <2>3, ReportOnce
<1>2. CASE Restart
  <2>1. restarts' = restarts + 1 /\ UNCHANGED <<list, todo, is_enumerated, enumerations>>
    BY <1>2 DEF Restart, clientVars
  <2> QED
    BY <2>1 DEF OnceInv
<1>3. CASE GetAll
  <2>1. UNCHANGED <<restarts, enumerations>>
    BY <1>3 DEF GetAll, history
  <2> QED
    BY <1>3, <2>1, GetAllReports, ReportOnce
<1>4. CASE enumerate_devices_sync
  BY <1>4, EnumerateOnce
<1>5. CASE get_devices_private
  BY <1>5, GetDeviceOnce
<1>6. CASE urf_killswitch_new \/ UNCHANGED vars
  <2>1. UNCHANGED <<devices, queue, list, todo, is_enumerated, restarts, enumerations>>
    BY <1>6 DEF urf_killswitch_new, vars, daemonVars, clientVars, history
  <2> QED
    BY <2>1 DEF OnceInv, AddedThere, Once, There
<1>7. CASE Dispatch
  BY <1>7, DispatchOnce
<1> QED
  BY <1>1, <1>2, <1>3, <1>4, <1>5, <1>6, <1>7 DEF Next

\* Two sequences that hold the same, each of it once, are as long.
LEMMA SameLength ==
    ASSUME NEW a, NEW b, Len(a) \in Nat, Len(b) \in Nat, Injective(a), Injective(b),
           \A x : Contains(a, x) <=> Contains(b, x)
    PROVE  Len(a) = Len(b)
<1> DEFINE A == 1..Len(a)
           B == 1..Len(b)
           f == [i \in A |-> CHOOSE j \in B : b[j] = a[i]]
<1>1. ASSUME NEW i \in A PROVE f[i] \in B /\ b[f[i]] = a[i]
  <2>1. Contains(a, a[i])
    BY DEF Contains
  <2>2. \E j \in B : b[j] = a[i]
    BY <2>1 DEF Contains
  <2> QED
    BY <2>2
<1> HIDE DEF f
<1>2. f \in [A -> B]
  BY <1>1 DEF f
<1>3. ASSUME NEW i \in A, NEW j \in A, f[i] = f[j] PROVE i = j
  BY <1>1, <1>3 DEF Injective
<1>4. ASSUME NEW j \in B PROVE \E i \in A : f[i] = j
  <2>1. Contains(b, b[j])
    BY DEF Contains
  <2>2. PICK i \in A : a[i] = b[j]
    BY <2>1 DEF Contains
  <2>3. f[i] = j
    BY <1>1, <2>2 DEF Injective
  <2> QED
    BY <2>3
<1>5. f \in Injection(A, B) /\ f \in Surjection(A, B)
  BY <1>2, <1>3, <1>4, Fun_IsInj, Fun_IsSurj
<1>6. ExistsBijection(A, B)
  BY <1>5 DEF ExistsBijection, Bijection
<1>7. IsFiniteSet(A) /\ Cardinality(A) = Len(a) /\ Cardinality(B) = Len(b)
  <2>1. ASSUME NEW n \in Nat PROVE IsFiniteSet(1..n) /\ Cardinality(1..n) = n
    <3>1. n \in Int /\ 1 \in Int
      OBVIOUS
    <3>2. /\ IsFiniteSet(1..n)
          /\ Cardinality(1..n) = IF 1 > n THEN 0 ELSE n - 1 + 1
      BY <3>1, FS_Interval, Zenon
    <3> QED
      BY <3>2
  <2> QED
    BY <2>1
<1> HIDE DEF A, B
<1>8. Cardinality(A) = Cardinality(B)
  BY <1>6, <1>7, FS_Bijection
<1> QED
  BY <1>7, <1>8

\* Once every message is handled, the client has every device of the daemon, through
\* restarts; and after one enumeration of the daemon it began with it has each once and
\* nothing else.
THEOREM ListAgrees == Spec => []ListComplete
<1>1. Init => OnceInv
  BY OnceBegins
<1>2. SyncInv /\ OnceInv /\ [Next]_vars => OnceInv'
  BY OnceStays
<1>3. SyncInv /\ OnceInv => ListComplete
  <2> SUFFICES ASSUME SyncInv, OnceInv, queue = <<>>, todo = <<>>, is_enumerated
               PROVE  /\ \A d \in Range(devices) : Known(d)
                      /\ restarts = 0 /\ enumerations = 1 =>
                           /\ {list[i].path : i \in DOMAIN list} = Range(devices)
                           /\ Len(list) = Len(devices)
    BY DEF ListComplete, Drained
  <2>1. /\ devices \in Seq(Devices) /\ Injective(devices) /\ NoneMissed
        /\ list \in Seq(DeviceObject) /\ Len(queue) = 0 /\ Len(todo) = 0
    BY DEF SyncInv, DaemonInv, ClientInv
  <2>2. /\ DOMAIN list = 1..Len(list) /\ Len(list) \in Nat
        /\ DOMAIN devices = 1..Len(devices) /\ Len(devices) \in Nat
        /\ \A d : d \in Range(devices) <=> Contains(devices, d)
        /\ \A d : Contains(devices, d) => d \in Devices
    <3>1. /\ DOMAIN list = 1..Len(list) /\ Len(list) \in Nat
          /\ DOMAIN devices = 1..Len(devices) /\ Len(devices) \in Nat
      BY <2>1, LenProperties
    <3>2. \A i \in 1..Len(devices) : devices[i] \in Devices
      BY <2>1, ElementOfSeq
    <3> QED
      BY <3>1, <3>2 DEF Range, Contains
  <2>3. ASSUME NEW d \in Range(devices) PROVE Known(d)
    <3>1. Contains(devices, d) /\ d \in Devices
      BY <2>2
    <3>2. ~ Contains(todo, d) /\ ~ Sent(queue, "DeviceAdded", d, 0)
      BY <2>1 DEF Contains, Sent
    <3> QED
      BY <2>1, <3>1, <3>2 DEF NoneMissed
  <2>4. ASSUME restarts = 0, enumerations = 1
        PROVE  /\ {list[i].path : i \in DOMAIN list} = Range(devices)
               /\ Len(list) = Len(devices)
    <3>1. Once
      BY <2>4 DEF OnceInv
    <3>2. \A i \in 1..Len(list) : Contains(devices, list[i].path)
      BY <2>1, <3>1 DEF Once, There, Sent
    <3>3. {list[i].path : i \in DOMAIN list} = Range(devices)
      <4>1. \A d \in Range(devices) : \E i \in DOMAIN list : list[i].path = d
        BY <2>3 DEF Known
      <4> QED
        BY <2>2, <3>2, <4>1
    <3>4. Len(list) = Len(devices)
      <4> DEFINE a == [i \in 1..Len(list) |-> list[i].path]
      <4>1. /\ Len(a) = Len(list) /\ \A i \in 1..Len(list) : a[i] = list[i].path
        <5>1. a \in [1..Len(list) -> {list[i].path : i \in 1..Len(list)}]
          OBVIOUS
        <5>2. a \in Seq({list[i].path : i \in 1..Len(list)})
          BY <2>2, <5>1, SeqDef
        <5>3. DOMAIN a = 1..Len(list)
          OBVIOUS
        <5>4. Len(a) = Len(list)
          <6> HIDE DEF a
          <6> QED
            BY <2>2, <5>2, <5>3, LenProperties
        <5> QED
          BY <5>4
      <4> HIDE DEF a
      <4>2. Injective(a)
        BY <3>1, <4>1 DEF Once, Injective
      <4>3. \A d : Contains(a, d) <=> Contains(devices, d)
        <5>1. \A d : Contains(a, d) <=> \E i \in 1..Len(list) : list[i].path = d
          BY <4>1 DEF Contains
        <5>2. \A d : Contains(devices, d) => \E i \in 1..Len(list) : list[i].path = d
          BY <2>2, <2>3 DEF Known
        <5> QED
          BY <3>2, <5>1, <5>2
      <4> QED
        BY <2>1, <2>2, <4>1, <4>2, <4>3, SameLength
    <3> QED
      BY <3>3, <3>4
  <2> QED
    BY <2>3, <2>4
<1> QED
  BY <1>1, <1>2, <1>3, Synchronized, PTL DEF Spec
=============================================================================
