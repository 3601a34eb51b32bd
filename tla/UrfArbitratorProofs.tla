------------------------- MODULE UrfArbitratorProofs -------------------------
(***************************************************************************)
(* Proofs about UrfArbitrator, for any devices, types and platform devices *)
(* that ArbitratorAssumption allows: the events that are still unread lead *)
(* from what urfkilld knows of the devices to what they are.               *)
(***************************************************************************)
EXTENDS UrfArbitrator, FiniteSetTheorems, SequenceTheorems, TLAPS

-----------------------------------------------------------------------------
(* Events.                                                                 *)

\* What an event tells of its device.
Told(e) == [soft |-> e.soft, hard |-> e.hard]

\* The events of s are one for each device of a set, with the blocks it has.
Reports(s, op, set, block) ==
    /\ s \in Seq(Event)
    /\ \A i \in 1..Len(s) : /\ s[i].op = op
                            /\ s[i].idx \in set
                            /\ Told(s[i]) = block[s[i].idx]
    /\ \A i, j \in 1..Len(s) : i # j => s[i].idx # s[j].idx
    /\ \A d \in set : \E i \in 1..Len(s) : s[i].idx = d

LEMMA OrderOf ==
    ASSUME NEW set \in SUBSET Devices
    PROVE  LET order == SetToSeq(set) IN
           /\ order \in Seq(set)
           /\ \A i, j \in 1..Len(order) : i # j => order[i] # order[j]
           /\ \A d \in set : \E i \in 1..Len(order) : order[i] = d
<1> DEFINE n == Cardinality(set)
           order == SetToSeq(set)
<1>1. IsFiniteSet(set)
  BY ArbitratorAssumption, FS_Subset
<1>2. n \in Nat /\ ExistsBijection(1..n, set)
  BY <1>1, FS_CardinalityType
<1>3. PICK f \in Bijection(1..n, set) : TRUE
  BY <1>2 DEF ExistsBijection
<1>4. f \in [1..n -> set] /\ IsInjective(f)
  BY <1>3 DEF Bijection, Injection, IsInjective
<1>5. order \in [1..n -> set] /\ IsInjective(order)
  BY <1>4 DEF SetToSeq
<1>6. order \in Injection(1..n, set)
  BY <1>5 DEF Injection, IsInjective
<1>7. Cardinality(1..n) = n
  BY <1>2, FS_Interval
<1>8. order \in Surjection(1..n, set)
  BY <1>1, <1>6, <1>7, FS_Injection
<1>9. order \in Seq(set) /\ Len(order) = n
  BY <1>2, <1>5
<1> QED
  BY <1>5, <1>8, <1>9 DEF IsInjective, Surjection

LEMMA EventOfReports ==
    ASSUME NEW op \in {"ADD", "DEL", "CHANGE"}, NEW d \in Devices,
           NEW block \in [Devices -> Blocks]
    PROVE  LET e == EventOf(op, d, block) IN
           e \in Event /\ e.op = op /\ e.idx = d /\ Told(e) = block[d]
  BY DEF EventOf, Event, Blocks, Told

LEMMA EventsOfReports ==
    ASSUME NEW op \in {"ADD", "DEL", "CHANGE"}, NEW set \in SUBSET Devices,
           NEW block \in [Devices -> Blocks]
    PROVE  Reports(EventsOf(op, set, block), op, set, block)
<1> DEFINE order == SetToSeq(set)
           s == EventsOf(op, set, block)
<1>1. /\ order \in Seq(set)
      /\ \A i, j \in 1..Len(order) : i # j => order[i] # order[j]
      /\ \A d \in set : \E i \in 1..Len(order) : order[i] = d
  BY OrderOf
<1>2. s = [i \in 1..Len(order) |-> EventOf(op, order[i], block)]
  BY DEF EventsOf
<1> HIDE DEF order, s
<1>3. \A i \in 1..Len(order) : order[i] \in Devices /\ order[i] \in set
  BY <1>1
<1>4. \A i \in 1..Len(order) : EventOf(op, order[i], block) \in Event
  BY <1>3, EventOfReports
<1>5. s \in Seq(Event) /\ Len(s) = Len(order)
  BY <1>1, <1>2, <1>4
<1>6. \A i \in 1..Len(order) : /\ s[i].op = op /\ s[i].idx = order[i]
                               /\ Told(s[i]) = block[order[i]]
  BY <1>2, <1>3, EventOfReports
<1>7. Reports(s, op, set, block)
  BY <1>1, <1>3, <1>5, <1>6 DEF Reports
<1> QED
  BY <1>7 DEF s

\* One event is a sequence of events.
LEMMA OneReports ==
    ASSUME NEW op \in {"ADD", "DEL", "CHANGE"}, NEW d \in Devices,
           NEW block \in [Devices -> Blocks]
    PROVE  Reports(<<EventOf(op, d, block)>>, op, {d}, block)
<1> DEFINE e == EventOf(op, d, block)
<1>1. e \in Event /\ e.op = op /\ e.idx = d /\ Told(e) = block[d]
  BY EventOfReports
<1> HIDE DEF e
<1>2. <<e>> \in Seq(Event) /\ Len(<<e>>) = 1 /\ <<e>>[1] = e
  BY <1>1
<1>3. Reports(<<e>>, op, {d}, block)
  BY <1>1, <1>2 DEF Reports
<1> QED
  BY <1>3 DEF e

LEMMA QueueGrows ==
    ASSUME NEW S, NEW q \in Seq(S), NEW s \in Seq(S)
    PROVE  /\ q \o s \in Seq(S)
           /\ Len(q) \in Nat /\ Len(s) \in Nat
           /\ Len(q \o s) = Len(q) + Len(s)
           /\ \A i \in 1..Len(q) : (q \o s)[i] = q[i]
           /\ \A i \in 1..Len(s) : (q \o s)[Len(q) + i] = s[i]
           /\ \A i \in 1..(Len(q) + Len(s)) :
                i \in 1..Len(q) \/ \E j \in 1..Len(s) : i = Len(q) + j
<1>1. Len(q) \in Nat /\ Len(s) \in Nat
  OBVIOUS
<1>2. \A i \in 1..(Len(q) + Len(s)) :
        i \in 1..Len(q) \/ \E j \in 1..Len(s) : i = Len(q) + j
  <2> SUFFICES ASSUME NEW i \in 1..(Len(q) + Len(s)), i \notin 1..Len(q)
               PROVE  \E j \in 1..Len(s) : i = Len(q) + j
    OBVIOUS
  <2>1. i - Len(q) \in 1..Len(s) /\ i = Len(q) + (i - Len(q))
    BY <1>1
  <2> QED
    BY <2>1
<1> QED
  BY <1>1, <1>2, ConcatProperties

LEMMA QueueShrinks ==
    ASSUME NEW S, NEW q \in Seq(S), q # <<>>
    PROVE  /\ Len(q) \in Nat \ {0}
           /\ Head(q) = q[1] /\ q[1] \in S
           /\ Tail(q) \in Seq(S)
           /\ Len(Tail(q)) = Len(q) - 1
           /\ \A i \in 1..Len(Tail(q)) : Tail(q)[i] = q[i + 1]
  BY HeadTailProperties

-----------------------------------------------------------------------------
(* The invariant.  It is about a kernel, a set of known devices and their  *)
(* objects, because an event that is handled goes through several of them. *)

Kernel == [present : SUBSET Devices, gone : SUBSET Devices,
           block : [Devices -> Blocks], queue : Seq(Event)]

About(k, i) == k.queue[i].idx
Positions(k) == 1..Len(k.queue)

\* An index is used once, and only for devices that are or were there.
Known(k, dv) ==
    /\ k.present \cap k.gone = {}
    /\ dv \subseteq k.present \cup k.gone
    /\ \A i \in Positions(k) : About(k, i) \in k.present \cup k.gone

\* A device is added by the first of its events, and once.
AddedFirst(k, dv) ==
    \A i \in Positions(k) : k.queue[i].op = "ADD" =>
        About(k, i) \notin dv /\ \A j \in Positions(k) : j < i => About(k, j) # About(k, i)

\* It goes with the last.
GoneLast(k) ==
    \A i \in Positions(k) : k.queue[i].op = "DEL" =>
        /\ About(k, i) \in k.gone
        /\ \A j \in Positions(k) : i < j => About(k, j) # About(k, i)

\* No event is about a device that is still unknown when it is read.
Heralded(k, dv) ==
    \A i \in Positions(k) : About(k, i) \in dv \/
        \E j \in Positions(k) : /\ j <= i
                                /\ k.queue[j].op = "ADD" /\ About(k, j) = About(k, i)

Announced(k, d, op) ==
    \E j \in Positions(k) : k.queue[j].op = op /\ About(k, j) = d

\* Devices that are there are known or will be.
Coming(k, dv) == \A d \in k.present : d \in dv \/ Announced(k, d, "ADD")

\* Those that are known, or will be, are there or will go.
Leaving(k, dv) ==
    /\ \A d \in dv : d \in k.present \/ Announced(k, d, "DEL")
    /\ \A i \in Positions(k) :
         About(k, i) \in k.present \/ Announced(k, About(k, i), "DEL")

\* The last event of a device tells its state ...
Latest(k) ==
    \A i \in Positions(k) :
        /\ About(k, i) \in k.present
        /\ \A j \in Positions(k) : i < j => About(k, j) # About(k, i)
        => Told(k.queue[i]) = k.block[About(k, i)]

\* ... and its object does, if there is no event.
Current(k, dv, ob) ==
    \A d \in dv \cap k.present :
        (\A i \in Positions(k) : About(k, i) # d) => ob[d] = k.block[d]

KInv(k, dv, ob) ==
    /\ k \in Kernel
    /\ ob \in [Devices -> Blocks]
    /\ Known(k, dv)
    /\ AddedFirst(k, dv) /\ GoneLast(k)
    /\ Heralded(k, dv)
    /\ Coming(k, dv) /\ Leaving(k, dv)
    /\ Latest(k) /\ Current(k, dv, ob)

-----------------------------------------------------------------------------
(* What the kernel does.                                                   *)

\* Changes of devices that are there.
LEMMA Changes ==
    ASSUME NEW k, NEW k2 \in Kernel, NEW dv, NEW ob, NEW s, NEW set \in SUBSET k.present,
           KInv(k, dv, ob),
           k2.present = k.present, k2.gone = k.gone, k2.queue = k.queue \o s,
           Reports(s, "CHANGE", set, k2.block),
           \A d \in Devices \ set : k2.block[d] = k.block[d]
    PROVE  KInv(k2, dv, ob)
<1> DEFINE q == k.queue
           q2 == k2.queue
           n == Len(q)
           m == Len(s)
<1>1. /\ k.present \in SUBSET Devices /\ k.gone \in SUBSET Devices /\ q \in Seq(Event)
      /\ ob \in [Devices -> Blocks]
  BY DEF KInv, Kernel
<1>2. /\ n \in Nat /\ m \in Nat /\ Len(q2) = n + m
      /\ \A i \in 1..n : q2[i] = q[i]
      /\ \A i \in 1..m : q2[n + i] = s[i]
      /\ \A i \in 1..(n + m) : i \in 1..n \/ \E j \in 1..m : i = n + j
  BY <1>1, QueueGrows DEF Reports
<1>3. /\ \A i \in 1..m : /\ s[i].op = "CHANGE" /\ s[i].idx \in set
                         /\ Told(s[i]) = k2.block[s[i].idx]
      /\ \A i, j \in 1..m : i # j => s[i].idx # s[j].idx
      /\ \A d \in set : \E i \in 1..m : s[i].idx = d
  BY DEF Reports
<1>4. /\ Positions(k) = 1..n /\ Positions(k2) = 1..(n + m)
      /\ \A i \in 1..n : i \in 1..(n + m) /\ About(k2, i) = About(k, i)
      /\ \A i \in 1..m : n + i \in 1..(n + m) /\ About(k2, n + i) = s[i].idx
  BY <1>2 DEF Positions, About
<1> HIDE DEF n, m
<1>cases. ASSUME NEW i \in 1..(n + m)
      PROVE  \/ i \in 1..n /\ k2.queue[i] = k.queue[i] /\ About(k2, i) = About(k, i)
             \/ \E l \in 1..m : /\ i = n + l /\ k2.queue[i] = s[l]
                               /\ About(k2, i) = s[l].idx
  <2>1. CASE i \in 1..n
    BY <2>1, <1>2, <1>4
  <2>2. ASSUME NEW l \in 1..m, i = n + l
        PROVE  k2.queue[i] = s[l] /\ About(k2, i) = s[l].idx
    BY <2>2, <1>2, <1>4
  <2> QED
    BY <2>1, <2>2, <1>2
<1>changes. \A l \in 1..m : s[l].idx \in k.present /\ s[l].op = "CHANGE"
  BY <1>3
<1>5. Known(k2, dv)
  BY <1>cases, <1>changes, <1>4 DEF KInv, Known
<1>6. AddedFirst(k2, dv)
  <2> SUFFICES ASSUME NEW i \in 1..(n + m), k2.queue[i].op = "ADD"
               PROVE  /\ About(k2, i) \notin dv
                      /\ \A j \in 1..(n + m) : j < i => About(k2, j) # About(k2, i)
    BY <1>4 DEF AddedFirst
  <2>1. i \in 1..n /\ k.queue[i].op = "ADD" /\ About(k2, i) = About(k, i)
    BY <1>cases, <1>changes
  <2>2. /\ About(k, i) \notin dv
        /\ \A j \in 1..n : j < i => About(k, j) # About(k, i)
    BY <1>4, <2>1 DEF KInv, AddedFirst
  <2>3. \A j \in 1..(n + m) : j < i => j \in 1..n
    BY <2>1, <1>2
  <2> QED
    BY <2>1, <2>2, <2>3, <1>4
<1>7. GoneLast(k2)
  <2> SUFFICES ASSUME NEW i \in 1..(n + m), q2[i].op = "DEL"
               PROVE  /\ About(k2, i) \in k2.gone
                      /\ \A j \in 1..(n + m) : i < j => About(k2, j) # About(k2, i)
    BY <1>4 DEF GoneLast
  <2>1. i \in 1..n /\ q[i].op = "DEL"
    BY <1>cases, <1>changes
  <2>2. /\ About(k, i) \in k.gone
        /\ \A j \in 1..n : i < j => About(k, j) # About(k, i)
    BY <1>4, <2>1 DEF KInv, GoneLast
  <2>3. \A j \in 1..m : About(k2, n + j) # About(k2, i)
    BY <1>3, <1>4, <2>1, <2>2 DEF KInv, Known
  <2> QED
    BY <1>2, <1>4, <2>1, <2>2, <2>3
<1>8. Heralded(k2, dv)
  <2> SUFFICES ASSUME NEW i \in 1..(n + m), About(k2, i) \notin dv
               PROVE  \E j \in 1..(n + m) : /\ j <= i
                           /\ q2[j].op = "ADD" /\ About(k2, j) = About(k2, i)
    BY <1>4 DEF Heralded
  <2>1. CASE i \in 1..n
    <3>1. PICK j \in 1..n : j <= i /\ q[j].op = "ADD" /\ About(k, j) = About(k, i)
      BY <1>4, <2>1 DEF KInv, Heralded
    <3> QED
      BY <3>1, <2>1, <1>2, <1>4
  <2>2. ASSUME NEW l \in 1..m, i = n + l
        PROVE  \E j \in 1..(n + m) : /\ j <= i
                    /\ q2[j].op = "ADD" /\ About(k2, j) = About(k2, i)
    <3>1. About(k2, i) = s[l].idx /\ s[l].idx \in k.present
      BY <1>3, <1>4, <2>2
    <3>2. PICK j \in 1..n : q[j].op = "ADD" /\ About(k, j) = s[l].idx
      BY <1>4, <3>1 DEF KInv, Coming, Announced
    <3> QED
      <4>1. j <= i /\ j \in 1..(n + m)
        BY <2>2, <1>2
      <4> QED
        BY <4>1, <3>1, <3>2, <1>2, <1>4
  <2> QED
    BY <1>2, <2>1, <2>2
<1>9. \A d, op : Announced(k, d, op) => Announced(k2, d, op)
  BY <1>2, <1>4 DEF Announced
<1>10. Coming(k2, dv)
  BY <1>9 DEF KInv, Coming
<1>11. Leaving(k2, dv)
  <2>1. \A d \in dv : d \in k2.present \/ Announced(k2, d, "DEL")
    BY <1>9 DEF KInv, Leaving
  <2>2. ASSUME NEW i \in 1..(n + m)
        PROVE  About(k2, i) \in k2.present \/ Announced(k2, About(k2, i), "DEL")
    <3>1. CASE i \in 1..n /\ About(k2, i) = About(k, i)
      BY <3>1, <1>4, <1>9 DEF KInv, Leaving
    <3> QED
      BY <3>1, <1>cases, <1>changes
  <2> QED
    BY <2>1, <2>2, <1>4 DEF Leaving
<1>12. Latest(k2)
  <2> SUFFICES ASSUME NEW i \in 1..(n + m), About(k2, i) \in k2.present,
                      \A j \in 1..(n + m) : i < j => About(k2, j) # About(k2, i)
               PROVE  Told(q2[i]) = k2.block[About(k2, i)]
    BY <1>4 DEF Latest
  <2>1. CASE i \in 1..n
    <3>1. About(k, i) \notin set
      <4> SUFFICES ASSUME NEW j \in 1..m, s[j].idx = About(k, i) PROVE FALSE
        BY <1>3
      <4>1. i < n + j
        BY <1>2, <2>1
      <4> QED
        BY <4>1, <2>1, <1>4
    <3>2. Told(q[i]) = k.block[About(k, i)]
      BY <1>4, <2>1 DEF KInv, Latest
    <3> QED
      BY <3>1, <3>2, <2>1, <1>1, <1>2, <1>4
  <2>2. ASSUME NEW l \in 1..m, i = n + l
        PROVE  Told(q2[i]) = k2.block[About(k2, i)]
    <3>1. q2[i] = s[l] /\ About(k2, i) = s[l].idx
      BY <1>2, <1>4, <2>2
    <3> QED
      BY <3>1, <1>3
  <2> QED
    BY <1>2, <2>1, <2>2
<1>13. Current(k2, dv, ob)
  <2> SUFFICES ASSUME NEW d \in dv \cap k.present,
                      \A i \in 1..(n + m) : About(k2, i) # d
               PROVE  ob[d] = k2.block[d]
    BY <1>4 DEF Current
  <2>1. d \notin set
    BY <1>3, <1>4
  <2>2. ob[d] = k.block[d]
    BY <1>4 DEF KInv, Current
  <2> QED
    BY <2>1, <2>2, <1>1
<1> QED
  BY <1>1, <1>5, <1>6, <1>7, <1>8, <1>10, <1>11, <1>12, <1>13 DEF KInv

LEMMA AllChanges ==
    ASSUME NEW k, NEW dv, NEW ob, NEW t, NEW blocked \in BOOLEAN, KInv(k, dv, ob)
    PROVE  KInv(CHANGE_ALL(k, t, blocked), dv, ob)
<1> DEFINE changed == {d \in k.present : TypeOf[d] = t /\ k.block[d].soft # blocked}
           block == [d \in Devices |-> IF d \in changed
                                       THEN [k.block[d] EXCEPT !.soft = blocked]
                                       ELSE k.block[d]]
           s == EventsOf("CHANGE", changed, block)
           k2 == CHANGE_ALL(k, t, blocked)
<1>1. k \in Kernel
  BY DEF KInv
<1>2. changed \in SUBSET k.present /\ changed \in SUBSET Devices
  BY <1>1 DEF Kernel
<1>3. block \in [Devices -> Blocks]
  BY <1>1 DEF Kernel, Blocks
<1>4. \A d \in Devices \ changed : block[d] = k.block[d]
  OBVIOUS
<1>5. k2 = [k EXCEPT !.block = block, !.queue = @ \o s]
  BY DEF CHANGE_ALL
<1> HIDE DEF changed, block
<1>6. Reports(s, "CHANGE", changed, block)
  BY <1>2, <1>3, EventsOfReports
<1> HIDE DEF s, k2
<1>7. s \in Seq(Event)
  BY <1>6 DEF Reports
<1>8. k.queue \o s \in Seq(Event)
  BY <1>1, <1>7, QueueGrows DEF Kernel
<1>9. /\ k2 \in Kernel
      /\ k2.present = k.present /\ k2.gone = k.gone
      /\ k2.block = block /\ k2.queue = k.queue \o s
  BY <1>1, <1>3, <1>5, <1>8 DEF Kernel
<1>10. KInv(k2, dv, ob)
  BY <1>2, <1>4, <1>6, <1>9, Changes
<1> QED
  BY <1>10 DEF k2

\* A change of one device that is there.
LEMMA OneChanges ==
    ASSUME NEW k, NEW dv, NEW ob, NEW d \in k.present, NEW b \in Blocks, KInv(k, dv, ob)
    PROVE  LET block == [k.block EXCEPT ![d] = b] IN
           KInv([k EXCEPT !.block = block,
                          !.queue = Append(@, EventOf("CHANGE", d, block))], dv, ob)
<1> DEFINE block == [k.block EXCEPT ![d] = b]
           s == <<EventOf("CHANGE", d, block)>>
           k2 == [k EXCEPT !.block = block,
                           !.queue = Append(@, EventOf("CHANGE", d, block))]
<1>1. k \in Kernel /\ d \in Devices
  BY DEF KInv, Kernel
<1>2. block \in [Devices -> Blocks] /\ \A o \in Devices \ {d} : block[o] = k.block[o]
  BY <1>1 DEF Kernel
<1> HIDE DEF block
<1>3. Reports(s, "CHANGE", {d}, block)
  BY <1>1, <1>2, OneReports
<1>4. EventOf("CHANGE", d, block) \in Event
  BY <1>1, <1>2, EventOfReports
<1>5. /\ Append(k.queue, EventOf("CHANGE", d, block)) = k.queue \o s
      /\ k.queue \o s \in Seq(Event)
  BY <1>1, <1>4 DEF Kernel
<1>6. /\ k2 \in Kernel
      /\ k2.present = k.present /\ k2.gone = k.gone
      /\ k2.block = block /\ k2.queue = k.queue \o s
  BY <1>1, <1>2, <1>5 DEF Kernel
<1> HIDE DEF s, k2
<1>7. KInv(k2, dv, ob)
  BY <1>2, <1>3, <1>6, Changes
<1> QED
  BY <1>7 DEF k2, block

\* A new device.
LEMMA Plugs ==
    ASSUME NEW k, NEW dv, NEW ob, NEW d \in Devices, NEW b \in Blocks, KInv(k, dv, ob),
           d \notin k.present \cup k.gone
    PROVE  LET block == [k.block EXCEPT ![d] = b] IN
           KInv([k EXCEPT !.present = @ \cup {d}, !.block = block,
                          !.queue = Append(@, EventOf("ADD", d, block))], dv, ob)
<1> DEFINE block == [k.block EXCEPT ![d] = b]
           e == EventOf("ADD", d, block)
           n == Len(k.queue)
           k2 == [k EXCEPT !.present = @ \cup {d}, !.block = block,
                           !.queue = Append(@, EventOf("ADD", d, block))]
<1>1. k \in Kernel /\ ob \in [Devices -> Blocks]
  BY DEF KInv
<1>2. block \in [Devices -> Blocks] /\ \A o \in Devices \ {d} : block[o] = k.block[o]
  BY <1>1 DEF Kernel
<1> HIDE DEF block
<1>3. e \in Event /\ e.op = "ADD" /\ e.idx = d /\ Told(e) = block[d]
  BY <1>2, EventOfReports
<1> HIDE DEF e
<1>4. k2 = [k EXCEPT !.present = @ \cup {d}, !.block = block, !.queue = Append(@, e)]
  BY DEF e
<1> HIDE DEF k2
<1>5. /\ k2 \in Kernel
      /\ k2.present = k.present \cup {d} /\ k2.gone = k.gone
      /\ k2.block = block /\ k2.queue = Append(k.queue, e)
  <2> DEFINE p == k.present \cup {d}
             s == Append(k.queue, e)
  <2>1. p \in SUBSET Devices /\ s \in Seq(Event)
    BY <1>1, <1>3 DEF Kernel
  <2>2. k2 = [k EXCEPT !.present = p, !.block = block, !.queue = s]
    BY <1>1, <1>4 DEF Kernel
  <2> HIDE DEF p, s
  <2>3. /\ k2 \in Kernel
        /\ k2.present = p /\ k2.gone = k.gone /\ k2.block = block /\ k2.queue = s
    BY <1>1, <1>2, <2>1, <2>2 DEF Kernel
  <2> QED
    BY <2>3 DEF p, s
<1>6. /\ n \in Nat /\ Positions(k) = 1..n /\ Positions(k2) = 1..(n + 1)
      /\ k2.queue[n + 1] = e /\ About(k2, n + 1) = d
      /\ \A i \in 1..n : k2.queue[i] = k.queue[i] /\ About(k2, i) = About(k, i)
  BY <1>1, <1>3, <1>5 DEF Kernel, Positions, About
<1> HIDE DEF n
<1>7. \A i \in 1..(n + 1) : i \in 1..n \/ i = n + 1
  BY <1>6
<1>8. \A i \in 1..n : i \in 1..(n + 1) /\ i < n + 1 /\ ~ (n + 1 < i)
  BY <1>6
<1>9. d \notin dv /\ \A i \in 1..n : About(k, i) # d
  BY <1>6 DEF KInv, Known
<1>10. Known(k2, dv)
  BY <1>5, <1>6, <1>7 DEF KInv, Known
<1>11. AddedFirst(k2, dv)
  BY <1>6, <1>7, <1>8, <1>9 DEF KInv, AddedFirst
<1>12. GoneLast(k2)
  <2> SUFFICES ASSUME NEW i \in 1..(n + 1), k2.queue[i].op = "DEL"
               PROVE  /\ About(k2, i) \in k2.gone
                      /\ \A j \in 1..(n + 1) : i < j => About(k2, j) # About(k2, i)
    BY <1>6 DEF GoneLast
  <2>1. i \in 1..n /\ k.queue[i].op = "DEL"
    BY <1>3, <1>6, <1>7
  <2>2. About(k, i) \in k.gone /\ \A j \in 1..n : i < j => About(k, j) # About(k, i)
    BY <2>1, <1>6 DEF KInv, GoneLast
  <2> QED
    BY <2>1, <2>2, <1>5, <1>6, <1>7, <1>9
<1>13. Announced(k2, d, "ADD")
       /\ \A o, op : Announced(k, o, op) => Announced(k2, o, op)
  BY <1>3, <1>6, <1>8 DEF Announced
<1>14. Heralded(k2, dv)
  BY <1>3, <1>6, <1>7, <1>8 DEF KInv, Heralded
<1>15. Coming(k2, dv)
  BY <1>5, <1>13 DEF KInv, Coming
<1>16. Leaving(k2, dv)
  BY <1>5, <1>6, <1>7, <1>13 DEF KInv, Leaving
<1>17. Latest(k2)
  <2> SUFFICES ASSUME NEW i \in 1..(n + 1), About(k2, i) \in k2.present,
                      \A j \in 1..(n + 1) : i < j => About(k2, j) # About(k2, i)
               PROVE  Told(k2.queue[i]) = block[About(k2, i)]
    BY <1>5, <1>6 DEF Latest
  <2>1. CASE i \in 1..n
    <3>1. About(k, i) \in k.present /\ About(k, i) \in Devices \ {d}
      BY <2>1, <1>1, <1>5, <1>6, <1>9 DEF Kernel
    <3>2. Told(k.queue[i]) = k.block[About(k, i)]
      BY <2>1, <3>1, <1>6, <1>8 DEF KInv, Latest
    <3> QED
      BY <2>1, <3>1, <3>2, <1>2, <1>6
  <2>2. CASE i = n + 1
    BY <2>2, <1>3, <1>6
  <2> QED
    BY <2>1, <2>2, <1>7
<1>18. Current(k2, dv, ob)
  <2> SUFFICES ASSUME NEW o \in dv \cap k2.present,
                      \A i \in 1..(n + 1) : About(k2, i) # o
               PROVE  ob[o] = block[o]
    BY <1>5, <1>6 DEF Current
  <2>1. o \in dv \cap k.present /\ o \in Devices \ {d}
    BY <1>1, <1>5, <1>9 DEF Kernel
  <2>2. ob[o] = k.block[o]
    BY <2>1, <1>6, <1>8 DEF KInv, Current
  <2> QED
    BY <2>1, <2>2, <1>2
<1>19. KInv(k2, dv, ob)
  BY <1>1, <1>5, <1>10, <1>11, <1>12, <1>14, <1>15, <1>16, <1>17, <1>18 DEF KInv
<1> QED
  BY <1>19 DEF k2, block

\* A device goes.
LEMMA Unplugs ==
    ASSUME NEW k, NEW dv, NEW ob, NEW d \in k.present, KInv(k, dv, ob)
    PROVE  KInv([k EXCEPT !.present = @ \ {d}, !.gone = @ \cup {d},
                          !.queue = Append(@, EventOf("DEL", d, k.block))], dv, ob)
<1> DEFINE e == EventOf("DEL", d, k.block)
           n == Len(k.queue)
           k2 == [k EXCEPT !.present = @ \ {d}, !.gone = @ \cup {d},
                           !.queue = Append(@, EventOf("DEL", d, k.block))]
<1>1. k \in Kernel /\ ob \in [Devices -> Blocks] /\ d \in Devices
  BY DEF KInv, Kernel
<1>2. e \in Event /\ e.op = "DEL" /\ e.idx = d
  BY <1>1, EventOfReports DEF Kernel
<1> HIDE DEF e
<1>3. k2 = [k EXCEPT !.present = @ \ {d}, !.gone = @ \cup {d}, !.queue = Append(@, e)]
  BY DEF e
<1> HIDE DEF k2
<1>4. /\ k2 \in Kernel
      /\ k2.present = k.present \ {d} /\ k2.gone = k.gone \cup {d}
      /\ k2.block = k.block /\ k2.queue = Append(k.queue, e)
  <2> DEFINE p == k.present \ {d}
             g == k.gone \cup {d}
             s == Append(k.queue, e)
  <2>1. p \in SUBSET Devices /\ g \in SUBSET Devices /\ s \in Seq(Event)
    BY <1>1, <1>2 DEF Kernel
  <2>2. k2 = [k EXCEPT !.present = p, !.gone = g, !.queue = s]
    BY <1>1, <1>3 DEF Kernel
  <2> HIDE DEF p, g, s
  <2>3. /\ k2 \in Kernel
        /\ k2.present = p /\ k2.gone = g /\ k2.block = k.block /\ k2.queue = s
    BY <1>1, <2>1, <2>2 DEF Kernel
  <2> QED
    BY <2>3 DEF p, g, s
<1>5. /\ n \in Nat /\ Positions(k) = 1..n /\ Positions(k2) = 1..(n + 1)
      /\ k2.queue[n + 1] = e /\ About(k2, n + 1) = d
      /\ \A i \in 1..n : k2.queue[i] = k.queue[i] /\ About(k2, i) = About(k, i)
  BY <1>1, <1>2, <1>4 DEF Kernel, Positions, About
<1> HIDE DEF n
<1>6. \A i \in 1..(n + 1) : i \in 1..n \/ i = n + 1
  BY <1>5
<1>7. /\ \A i \in 1..n : i \in 1..(n + 1) /\ i < n + 1 /\ i <= n + 1
      /\ \A i \in 1..(n + 1) : ~ (n + 1 < i)
      /\ n + 1 \in 1..(n + 1)
  BY <1>5
<1>8. d \notin k.gone
  BY DEF KInv, Known
<1>9. Known(k2, dv)
  BY <1>4, <1>5, <1>6 DEF KInv, Known
<1>10. AddedFirst(k2, dv)
  <2> SUFFICES ASSUME NEW i \in 1..(n + 1), k2.queue[i].op = "ADD"
               PROVE  /\ About(k2, i) \notin dv
                      /\ \A j \in 1..(n + 1) : j < i => About(k2, j) # About(k2, i)
    BY <1>5 DEF AddedFirst
  <2>1. i \in 1..n /\ k.queue[i].op = "ADD"
    BY <1>2, <1>5, <1>6
  <2>2. \A j \in 1..(n + 1) : j < i => j \in 1..n
    BY <2>1, <1>5
  <2> QED
    BY <2>1, <2>2, <1>5 DEF KInv, AddedFirst
<1>11. GoneLast(k2)
  <2> SUFFICES ASSUME NEW i \in 1..(n + 1), k2.queue[i].op = "DEL"
               PROVE  /\ About(k2, i) \in k2.gone
                      /\ \A j \in 1..(n + 1) : i < j => About(k2, j) # About(k2, i)
    BY <1>5 DEF GoneLast
  <2>1. CASE i \in 1..n
    <3>1. About(k, i) \in k.gone /\ \A j \in 1..n : i < j => About(k, j) # About(k, i)
      BY <2>1, <1>5 DEF KInv, GoneLast
    <3> QED
      BY <2>1, <3>1, <1>4, <1>5, <1>6, <1>8
  <2>2. CASE i = n + 1
    BY <2>2, <1>4, <1>5, <1>7
  <2> QED
    BY <2>1, <2>2, <1>6
<1>12. Announced(k2, d, "DEL")
       /\ \A o, op : Announced(k, o, op) => Announced(k2, o, op)
  BY <1>2, <1>5, <1>7 DEF Announced
<1>13. Heralded(k2, dv)
  <2> SUFFICES ASSUME NEW i \in 1..(n + 1), About(k2, i) \notin dv
               PROVE  \E j \in 1..(n + 1) : /\ j <= i
                           /\ k2.queue[j].op = "ADD" /\ About(k2, j) = About(k2, i)
    BY <1>5 DEF Heralded
  <2>1. CASE i \in 1..n
    BY <2>1, <1>5, <1>7 DEF KInv, Heralded
  <2>2. CASE i = n + 1
    <3>1. PICK j \in 1..n : k.queue[j].op = "ADD" /\ About(k, j) = d
      BY <2>2, <1>5 DEF KInv, Coming, Announced
    <3> QED
      BY <3>1, <2>2, <1>5, <1>7
  <2> QED
    BY <2>1, <2>2, <1>6
<1>14. Coming(k2, dv)
  BY <1>4, <1>12 DEF KInv, Coming
<1>15. Leaving(k2, dv)
  BY <1>4, <1>5, <1>6, <1>12 DEF KInv, Leaving
<1>16. Latest(k2)
  <2> SUFFICES ASSUME NEW i \in 1..(n + 1), About(k2, i) \in k2.present,
                      \A j \in 1..(n + 1) : i < j => About(k2, j) # About(k2, i)
               PROVE  Told(k2.queue[i]) = k.block[About(k2, i)]
    BY <1>4, <1>5 DEF Latest
  <2>1. i \in 1..n /\ About(k, i) \in k.present
    BY <1>4, <1>5, <1>6
  <2> QED
    BY <2>1, <1>5, <1>7 DEF KInv, Latest
<1>17. Current(k2, dv, ob)
  BY <1>4, <1>5, <1>7 DEF KInv, Current
<1>18. KInv(k2, dv, ob)
  BY <1>1, <1>4, <1>9, <1>10, <1>11, <1>13, <1>14, <1>15, <1>16, <1>17 DEF KInv
<1> QED
  BY <1>18 DEF k2

\* Opening /dev/rfkill: all that urfkilld knew is forgotten, and read again.
LEMMA Starts ==
    ASSUME NEW k \in Kernel, k.present \cap k.gone = {}, NEW ob \in [Devices -> Blocks]
    PROVE  KInv(startup(k), {}, ob)
<1> DEFINE s == EventsOf("ADD", k.present, k.block)
           k2 == startup(k)
<1>1. Reports(s, "ADD", k.present, k.block)
  BY EventsOfReports DEF Kernel
<1>2. k2 = [k EXCEPT !.queue = s]
  BY DEF startup
<1> HIDE DEF s, k2
<1>3. /\ k2 \in Kernel
      /\ k2.present = k.present /\ k2.gone = k.gone
      /\ k2.block = k.block /\ k2.queue = s
  BY <1>1, <1>2 DEF Kernel, Reports
<1>4. /\ Positions(k2) = 1..Len(s)
      /\ \A i \in 1..Len(s) : /\ k2.queue[i].op = "ADD" /\ About(k2, i) \in k.present
                              /\ Told(k2.queue[i]) = k.block[About(k2, i)]
      /\ \A i, j \in 1..Len(s) : i # j => About(k2, i) # About(k2, j)
      /\ \A d \in k.present : \E i \in 1..Len(s) : About(k2, i) = d
      /\ s \in Seq(Event)
  BY <1>1, <1>3 DEF Reports, Positions, About
<1>5. \A i \in 1..Len(s) : i <= i /\ \A j \in 1..Len(s) : j < i => j # i
  BY <1>4
<1>6. Known(k2, {}) /\ AddedFirst(k2, {}) /\ GoneLast(k2)
  BY <1>3, <1>4, <1>5 DEF Known, AddedFirst, GoneLast
<1>7. Heralded(k2, {}) /\ Coming(k2, {}) /\ Leaving(k2, {})
  BY <1>3, <1>4, <1>5 DEF Heralded, Coming, Leaving, Announced
<1>8. Latest(k2) /\ Current(k2, {}, ob)
  BY <1>3, <1>4 DEF Latest, Current
<1>9. KInv(k2, {}, ob)
  BY <1>3, <1>6, <1>7, <1>8 DEF KInv
<1> QED
  BY <1>9 DEF k2

-----------------------------------------------------------------------------
(* What the arbitrator does with the first event.                          *)

\* The kernel when its first event has been read.
Read(k) == [k EXCEPT !.queue = Tail(@)]

LEMMA ReadFacts ==
    ASSUME NEW k \in Kernel, k.queue # <<>>
    PROVE  /\ Read(k) \in Kernel
           /\ Read(k).present = k.present /\ Read(k).gone = k.gone
           /\ Read(k).block = k.block
           /\ 1 \in Positions(k)
           /\ Head(k.queue) = k.queue[1] /\ Head(k.queue) \in Event
           /\ \A i \in Positions(k) : 1 <= i /\ (i <= 1 => i = 1)
           /\ \A i \in Positions(Read(k)) :
                /\ i + 1 \in Positions(k) /\ 1 < i + 1 /\ i \in Int
                /\ Read(k).queue[i] = k.queue[i + 1]
                /\ About(Read(k), i) = About(k, i + 1)
           /\ \A i \in Positions(k) :
                i = 1 \/ \E j \in Positions(Read(k)) : i = j + 1
<1> DEFINE n == Len(k.queue)
<1>1. k.queue \in Seq(Event)
  BY DEF Kernel
<1>2. /\ n \in Nat \ {0} /\ Head(k.queue) = k.queue[1] /\ k.queue[1] \in Event
      /\ Tail(k.queue) \in Seq(Event) /\ Len(Tail(k.queue)) = n - 1
      /\ \A i \in 1..(n - 1) : Tail(k.queue)[i] = k.queue[i + 1]
  BY <1>1, QueueShrinks
<1>3. /\ Read(k) \in Kernel
      /\ Read(k).present = k.present /\ Read(k).gone = k.gone
      /\ Read(k).block = k.block /\ Read(k).queue = Tail(k.queue)
  BY <1>2 DEF Kernel, Read
<1>4. Positions(k) = 1..n /\ Positions(Read(k)) = 1..(n - 1)
  BY <1>2, <1>3 DEF Positions
<1> HIDE DEF n
<1>5. \A i \in 1..n : i = 1 \/ \E j \in 1..(n - 1) : i = j + 1
  <2> SUFFICES ASSUME NEW i \in 1..n, i # 1 PROVE \E j \in 1..(n - 1) : i = j + 1
    OBVIOUS
  <2>1. i - 1 \in 1..(n - 1) /\ i = (i - 1) + 1
    BY <1>2
  <2> QED
    BY <2>1
<1>6. \A i \in 1..(n - 1) : /\ i + 1 \in 1..n /\ 1 < i + 1 /\ i \in Int
                            /\ Read(k).queue[i] = k.queue[i + 1]
                            /\ About(Read(k), i) = About(k, i + 1)
  BY <1>2, <1>3 DEF About
<1>7. 1 \in 1..n /\ \A i \in 1..n : 1 <= i /\ (i <= 1 => i = 1)
  BY <1>2
<1>8. 1 \in Positions(k) /\ \A i \in Positions(k) : 1 <= i /\ (i <= 1 => i = 1)
  BY <1>4, <1>7
<1>9. /\ \A i \in Positions(Read(k)) :
           /\ i + 1 \in Positions(k) /\ 1 < i + 1 /\ i \in Int
           /\ Read(k).queue[i] = k.queue[i + 1]
           /\ About(Read(k), i) = About(k, i + 1)
      /\ \A i \in Positions(k) :
           i = 1 \/ \E j \in Positions(Read(k)) : i = j + 1
  BY <1>4, <1>5, <1>6
<1>10. Head(k.queue) = k.queue[1] /\ Head(k.queue) \in Event
  BY <1>2
<1> QED
  BY <1>3, <1>8, <1>9, <1>10

\* The object of a device as an event tells it.
ObjectOf(ob, e) == [ob EXCEPT ![e.idx] = Told(e)]

\* What does not depend on what is known of the devices.
LEMMA ReadKeeps ==
    ASSUME NEW k, NEW dv, NEW ob, KInv(k, dv, ob), k.queue # <<>>
    PROVE  /\ GoneLast(Read(k)) /\ Latest(Read(k))
           /\ \A d, op : Announced(k, d, op) =>
                \/ Announced(Read(k), d, op)
                \/ Head(k.queue).op = op /\ Head(k.queue).idx = d
           /\ Head(k.queue).idx \in Devices
<1> DEFINE k1 == Read(k)
           e == Head(k.queue)
<1>1. k \in Kernel /\ GoneLast(k) /\ Latest(k)
  BY DEF KInv
<1>2. /\ k1.present = k.present /\ k1.gone = k.gone /\ k1.block = k.block
      /\ e = k.queue[1] /\ e \in Event
      /\ \A i \in Positions(k1) :
           /\ i + 1 \in Positions(k) /\ i \in Int
           /\ k1.queue[i] = k.queue[i + 1] /\ About(k1, i) = About(k, i + 1)
      /\ \A i \in Positions(k) : i = 1 \/ \E j \in Positions(k1) : i = j + 1
  BY <1>1, ReadFacts
<1> HIDE DEF k1, e
<1>3. \A i, j \in Positions(k1) : i < j <=> i + 1 < j + 1
  BY <1>2
<1>4. GoneLast(k1)
  BY <1>1, <1>2, <1>3 DEF GoneLast
<1>5. Latest(k1)
  <2> SUFFICES ASSUME NEW i \in Positions(k1), About(k1, i) \in k1.present,
                      \A j \in Positions(k1) : i < j => About(k1, j) # About(k1, i)
               PROVE  Told(k1.queue[i]) = k1.block[About(k1, i)]
    BY DEF Latest
  <2>1. ASSUME NEW j \in Positions(k), i + 1 < j PROVE About(k, j) # About(k, i + 1)
    <3>1. j # 1
      BY <1>2, <2>1, ReadFacts, <1>1
    <3> QED
      BY <3>1, <2>1, <1>2, <1>3
  <2> QED
    BY <1>1, <1>2, <2>1 DEF Latest
<1>6. \A d, op : Announced(k, d, op) => Announced(k1, d, op) \/ (e.op = op /\ e.idx = d)
  BY <1>2 DEF Announced, About
<1> QED
  BY <1>2, <1>4, <1>5, <1>6 DEF k1, e, Event

LEMMA ReadsADD ==
    ASSUME NEW k, NEW dv, NEW ob, KInv(k, dv, ob), k.queue # <<>>,
           Head(k.queue).op = "ADD"
    PROVE  LET e == Head(k.queue) IN
           e.idx \notin dv /\ KInv(Read(k), dv \cup {e.idx}, ObjectOf(ob, e))
<1> DEFINE k1 == Read(k)
           e == Head(k.queue)
           d == e.idx
           dv1 == dv \cup {d}
           ob1 == ObjectOf(ob, e)
<1>1. k \in Kernel /\ ob \in [Devices -> Blocks]
  BY DEF KInv
<1>2. /\ k1 \in Kernel
      /\ k1.present = k.present /\ k1.gone = k.gone /\ k1.block = k.block
      /\ 1 \in Positions(k) /\ e = k.queue[1] /\ e \in Event
      /\ \A i \in Positions(k1) :
           /\ i + 1 \in Positions(k) /\ 1 < i + 1 /\ i \in Int
           /\ k1.queue[i] = k.queue[i + 1] /\ About(k1, i) = About(k, i + 1)
      /\ \A i \in Positions(k) : i = 1 \/ \E j \in Positions(k1) : i = j + 1
  BY <1>1, ReadFacts
<1>3. /\ GoneLast(k1) /\ Latest(k1) /\ e.op = "ADD" /\ d \in Devices
      /\ \A o, op : Announced(k, o, op) =>
           Announced(k1, o, op) \/ (e.op = op /\ e.idx = o)
  BY ReadKeeps
<1> HIDE DEF k1, e
<1>4. About(k, 1) = d
  BY <1>2 DEF About
<1>5. \A i, j \in Positions(k1) : (i < j <=> i + 1 < j + 1) /\ (i <= j <=> i + 1 <= j + 1)
  BY <1>2
<1>6. d \notin dv
  BY <1>2, <1>3, <1>4 DEF KInv, AddedFirst
<1>7. ob1 \in [Devices -> Blocks] /\ ob1[d] = Told(e)
      /\ \A o \in Devices \ {d} : ob1[o] = ob[o]
  BY <1>1, <1>2, <1>3 DEF ObjectOf, Told, Event, Blocks
<1> HIDE DEF ob1, d
<1>8. Known(k1, dv1)
  BY <1>2, <1>4 DEF KInv, Known
<1>9. AddedFirst(k1, dv1)
  BY <1>2, <1>4, <1>5 DEF KInv, AddedFirst
<1>10. Heralded(k1, dv1)
  <2> SUFFICES ASSUME NEW i \in Positions(k1), About(k1, i) \notin dv1
               PROVE  \E j \in Positions(k1) : /\ j <= i
                           /\ k1.queue[j].op = "ADD" /\ About(k1, j) = About(k1, i)
    BY DEF Heralded
  <2>1. About(k, i + 1) \notin dv /\ About(k, i + 1) # d
    BY <1>2
  <2>2. PICK j \in Positions(k) : /\ j <= i + 1
                                  /\ k.queue[j].op = "ADD" /\ About(k, j) = About(k, i + 1)
    BY <2>1, <1>2 DEF KInv, Heralded
  <2>3. PICK l \in Positions(k1) : j = l + 1
    BY <2>1, <2>2, <1>2, <1>4
  <2> QED
    BY <2>2, <2>3, <1>2, <1>5
<1>11. Coming(k1, dv1)
  BY <1>2, <1>3 DEF KInv, Coming, d
<1>12. Leaving(k1, dv1)
  <2>1. \A o : Announced(k, o, "DEL") => Announced(k1, o, "DEL")
    BY <1>3
  <2>2. d \in k.present \/ Announced(k, d, "DEL")
    BY <1>2, <1>4 DEF KInv, Leaving
  <2> QED
    BY <2>1, <2>2, <1>2 DEF KInv, Leaving
<1>13. Current(k1, dv1, ob1)
  <2> SUFFICES ASSUME NEW o \in dv1 \cap k.present,
                      \A i \in Positions(k1) : About(k1, i) # o
               PROVE  ob1[o] = k.block[o]
    BY <1>2 DEF Current
  <2>1. CASE o = d
    <3>1. \A j \in Positions(k) : 1 < j => About(k, j) # About(k, 1)
      BY <2>1, <1>2, <1>4
    <3> QED
      BY <3>1, <2>1, <1>2, <1>4, <1>7 DEF KInv, Latest
  <2>2. CASE o # d
    <3>1. o \in dv \cap k.present /\ o \in Devices \ {d}
      BY <2>2, <1>1 DEF Kernel
    <3>2. \A i \in Positions(k) : About(k, i) # o
      BY <2>2, <1>2, <1>4
    <3> QED
      BY <3>1, <3>2, <1>7 DEF KInv, Current
  <2> QED
    BY <2>1, <2>2
<1>14. KInv(k1, dv1, ob1)
  BY <1>2, <1>3, <1>7, <1>8, <1>9, <1>10, <1>11, <1>12, <1>13 DEF KInv
<1> QED
  BY <1>6, <1>14 DEF k1, e, ob1, d

LEMMA ReadsDEL ==
    ASSUME NEW k, NEW dv, NEW ob, KInv(k, dv, ob), k.queue # <<>>,
           Head(k.queue).op = "DEL"
    PROVE  KInv(Read(k), dv \ {Head(k.queue).idx}, ob)
<1> DEFINE k1 == Read(k)
           e == Head(k.queue)
           d == e.idx
           dv1 == dv \ {d}
<1>1. k \in Kernel /\ ob \in [Devices -> Blocks]
  BY DEF KInv
<1>2. /\ k1 \in Kernel
      /\ k1.present = k.present /\ k1.gone = k.gone /\ k1.block = k.block
      /\ 1 \in Positions(k) /\ e = k.queue[1]
      /\ \A i \in Positions(k1) :
           /\ i + 1 \in Positions(k) /\ 1 < i + 1 /\ i \in Int
           /\ k1.queue[i] = k.queue[i + 1] /\ About(k1, i) = About(k, i + 1)
      /\ \A i \in Positions(k) : i = 1 \/ \E j \in Positions(k1) : i = j + 1
  BY <1>1, ReadFacts
<1>3. /\ GoneLast(k1) /\ Latest(k1) /\ e.op = "DEL"
      /\ \A o, op : Announced(k, o, op) =>
           Announced(k1, o, op) \/ (e.op = op /\ d = o)
  BY ReadKeeps
<1> HIDE DEF k1, e
<1>4. About(k, 1) = d
  BY <1>2 DEF About
<1>5. \A i, j \in Positions(k1) : (i < j <=> i + 1 < j + 1) /\ (i <= j <=> i + 1 <= j + 1)
  BY <1>2
<1> HIDE DEF d
\* Nothing is heard of it any more.
<1>6. d \in k.gone /\ d \notin k.present /\ \A i \in Positions(k1) : About(k1, i) # d
  <2>1. d \in k.gone /\ \A j \in Positions(k) : 1 < j => About(k, j) # d
    BY <1>2, <1>3, <1>4 DEF KInv, GoneLast
  <2> QED
    BY <2>1, <1>2 DEF KInv, Known
<1>7. Known(k1, dv1)
  BY <1>2 DEF KInv, Known
<1>8. AddedFirst(k1, dv1)
  BY <1>2, <1>5 DEF KInv, AddedFirst
<1>9. Heralded(k1, dv1)
  <2> SUFFICES ASSUME NEW i \in Positions(k1), About(k1, i) \notin dv1
               PROVE  \E j \in Positions(k1) : /\ j <= i
                           /\ k1.queue[j].op = "ADD" /\ About(k1, j) = About(k1, i)
    BY DEF Heralded
  <2>1. About(k, i + 1) \notin dv /\ About(k, i + 1) # d
    BY <1>2, <1>6
  <2>2. PICK j \in Positions(k) : /\ j <= i + 1
                                  /\ k.queue[j].op = "ADD" /\ About(k, j) = About(k, i + 1)
    BY <2>1, <1>2 DEF KInv, Heralded
  <2>3. PICK l \in Positions(k1) : j = l + 1
    BY <2>1, <2>2, <1>2, <1>4
  <2> QED
    BY <2>2, <2>3, <1>2, <1>5
<1>10. Coming(k1, dv1)
  BY <1>2, <1>3, <1>6 DEF KInv, Coming
<1>11. Leaving(k1, dv1)
  BY <1>2, <1>3, <1>6 DEF KInv, Leaving
<1>12. Current(k1, dv1, ob)
  BY <1>2, <1>4 DEF KInv, Current
<1>13. KInv(k1, dv1, ob)
  BY <1>1, <1>2, <1>3, <1>7, <1>8, <1>9, <1>10, <1>11, <1>12 DEF KInv
<1> QED
  BY <1>13 DEF k1, e, d

LEMMA ReadsCHANGE ==
    ASSUME NEW k, NEW dv, NEW ob, KInv(k, dv, ob), k.queue # <<>>,
           Head(k.queue).op = "CHANGE"
    PROVE  LET e == Head(k.queue) IN
           e.idx \in dv /\ KInv(Read(k), dv, ObjectOf(ob, e))
<1> DEFINE k1 == Read(k)
           e == Head(k.queue)
           d == e.idx
           ob1 == ObjectOf(ob, e)
<1>1. k \in Kernel /\ ob \in [Devices -> Blocks]
  BY DEF KInv
<1>2. /\ k1 \in Kernel
      /\ k1.present = k.present /\ k1.gone = k.gone /\ k1.block = k.block
      /\ 1 \in Positions(k) /\ e = k.queue[1] /\ e \in Event
      /\ \A i \in Positions(k) : i <= 1 => i = 1
      /\ \A i \in Positions(k1) :
           /\ i + 1 \in Positions(k) /\ 1 < i + 1 /\ i \in Int
           /\ k1.queue[i] = k.queue[i + 1] /\ About(k1, i) = About(k, i + 1)
      /\ \A i \in Positions(k) : i = 1 \/ \E j \in Positions(k1) : i = j + 1
  BY <1>1, ReadFacts
<1>3. /\ GoneLast(k1) /\ Latest(k1) /\ e.op = "CHANGE" /\ d \in Devices
      /\ \A o, op : Announced(k, o, op) =>
           Announced(k1, o, op) \/ (e.op = op /\ d = o)
  BY ReadKeeps
<1> HIDE DEF k1, e
<1>4. About(k, 1) = d
  BY <1>2 DEF About
<1>5. \A i, j \in Positions(k1) : (i < j <=> i + 1 < j + 1) /\ (i <= j <=> i + 1 <= j + 1)
  BY <1>2
<1>6. d \in dv
  BY <1>2, <1>3, <1>4 DEF KInv, Heralded
<1>7. ob1 \in [Devices -> Blocks] /\ ob1[d] = Told(e)
      /\ \A o \in Devices \ {d} : ob1[o] = ob[o]
  BY <1>1, <1>2, <1>3 DEF ObjectOf, Told, Event, Blocks
<1> HIDE DEF ob1, d
<1>8. Known(k1, dv)
  BY <1>2 DEF KInv, Known
<1>9. AddedFirst(k1, dv)
  BY <1>2, <1>5 DEF KInv, AddedFirst
<1>10. Heralded(k1, dv)
  <2> SUFFICES ASSUME NEW i \in Positions(k1), About(k1, i) \notin dv
               PROVE  \E j \in Positions(k1) : /\ j <= i
                           /\ k1.queue[j].op = "ADD" /\ About(k1, j) = About(k1, i)
    BY DEF Heralded
  <2>1. PICK j \in Positions(k) : /\ j <= i + 1
                                  /\ k.queue[j].op = "ADD" /\ About(k, j) = About(k, i + 1)
    BY <1>2 DEF KInv, Heralded
  <2>2. PICK l \in Positions(k1) : j = l + 1
    BY <2>1, <1>2, <1>3
  <2> QED
    BY <2>1, <2>2, <1>2, <1>5
<1>11. Coming(k1, dv)
  BY <1>2, <1>3 DEF KInv, Coming
<1>12. Leaving(k1, dv)
  BY <1>2, <1>3 DEF KInv, Leaving
<1>13. Current(k1, dv, ob1)
  <2> SUFFICES ASSUME NEW o \in dv \cap k.present,
                      \A i \in Positions(k1) : About(k1, i) # o
               PROVE  ob1[o] = k.block[o]
    BY <1>2 DEF Current
  <2>1. CASE o = d
    <3>1. \A j \in Positions(k) : 1 < j => About(k, j) # About(k, 1)
      BY <2>1, <1>2, <1>4
    <3> QED
      BY <3>1, <2>1, <1>2, <1>4, <1>7 DEF KInv, Latest
  <2>2. CASE o # d
    <3>1. o \in Devices \ {d}
      BY <2>2, <1>1 DEF Kernel
    <3>2. \A i \in Positions(k) : About(k, i) # o
      BY <2>2, <1>2, <1>4
    <3> QED
      BY <3>1, <3>2, <1>7 DEF KInv, Current
  <2> QED
    BY <2>1, <2>2
<1>14. KInv(k1, dv, ob1)
  BY <1>2, <1>3, <1>7, <1>8, <1>9, <1>10, <1>11, <1>12, <1>13 DEF KInv
<1> QED
  BY <1>6, <1>14 DEF k1, e, ob1, d

-----------------------------------------------------------------------------
(* The specification.                                                      *)

LEMMA SetSoftKeeps ==
    ASSUME NEW k, NEW dv, NEW ob, NEW d, NEW blocked \in BOOLEAN, KInv(k, dv, ob)
    PROVE  KInv(set_soft(k, d, blocked), dv, ob)
  BY AllChanges DEF set_soft

LEMMA AddedWritesKeeps ==
    ASSUME NEW k, NEW dv, NEW ob, NEW d \in Devices, NEW soft \in BOOLEAN,
           saved \in [Types -> BOOLEAN], KInv(k, dv, ob)
    PROVE  KInv(AddedWrites(k, d, soft), dv, ob)
<1> DEFINE forced == IF config.force_sync /\ d \notin Platform
                     THEN set_soft(k, d, soft) ELSE k
<1>1. saved[TypeOf[d]] \in BOOLEAN
  BY ArbitratorAssumption
<1>2. KInv(forced, dv, ob)
  BY SetSoftKeeps
<1>3. AddedWrites(k, d, soft)
        = IF config.persist THEN set_soft(forced, d, saved[TypeOf[d]]) ELSE forced
  BY DEF AddedWrites
<1> HIDE DEF forced
<1> QED
  BY <1>1, <1>2, <1>3, SetSoftKeeps

LEMMA ChangedWritesKeeps ==
    ASSUME NEW k, NEW dv, NEW ob, NEW e, KInv(k, dv, ob)
    PROVE  KInv(ChangedWrites(k, e), dv, ob)
  BY SetSoftKeeps DEF ChangedWrites

\* The rest: a call is carried out on devices that are known.
RInv ==
    /\ saved \in [Types -> BOOLEAN]
    /\ request \in {None} \cup [type : Types, block : BOOLEAN, left : SUBSET devices]
    /\ config \in [force_sync : BOOLEAN, persist : BOOLEAN]
    /\ inputs \in 0..MaxInputs
    /\ single \in BOOLEAN

IInv == KInv(kernel, devices, object) /\ RInv

LEMMA KnownAreDevices ==
    ASSUME NEW k, NEW dv, NEW ob, KInv(k, dv, ob)
    PROVE  dv \subseteq Devices
  BY DEF KInv, Kernel, Known

LEMMA Begins == ASSUME Init PROVE IInv
<1>1. PICK present \in SUBSET Devices, block \in [Devices -> Blocks] :
          kernel = startup([present |-> present, gone |-> {}, block |-> block,
                            queue |-> <<>>])
  BY DEF Init
<1> DEFINE k == [present |-> present, gone |-> {}, block |-> block, queue |-> <<>>]
<1>2. k \in Kernel /\ k.present \cap k.gone = {}
  BY DEF Kernel
<1>3. object \in [Devices -> Blocks] /\ devices = {}
  BY DEF Init, Blocks
<1> HIDE DEF k
<1>4. KInv(startup(k), {}, object)
  BY <1>2, <1>3, Starts
<1>5. KInv(kernel, devices, object)
  BY <1>1, <1>3, <1>4 DEF k
<1>6. /\ saved \in [Types -> BOOLEAN] /\ request = None
      /\ config \in [force_sync : BOOLEAN, persist : BOOLEAN]
      /\ inputs = 0 /\ single = FALSE
  BY DEF Init
<1>7. RInv
  <2>1. inputs \in 0..MaxInputs
    BY <1>6, ArbitratorAssumption
  <2>2. single \in BOOLEAN
    BY <1>6, Zenon
  <2>3. request \in {None} \cup [type : Types, block : BOOLEAN, left : SUBSET devices]
    BY <1>6
  <2> QED
    BY <1>6, <2>1, <2>2, <2>3 DEF RInv
<1> QED
  BY <1>5, <1>7 DEF IInv

LEMMA EventKeeps == ASSUME IInv, event_cb PROVE KInv(kernel', devices', object')
<1> DEFINE e == Head(kernel.queue)
           k == Read(kernel)
<1>1. kernel.queue # <<>> /\ KInv(kernel, devices, object) /\ saved \in [Types -> BOOLEAN]
  BY DEF event_cb, IInv, RInv
<1>2. add_killswitch(k, e) \/ remove_killswitch(k, e) \/ update_killswitch(k, e)
  BY DEF event_cb, Read
<1>3. kernel \in Kernel /\ object \in [Devices -> Blocks]
  BY <1>1 DEF KInv
<1>4. e.idx \in Devices /\ e.soft \in BOOLEAN
  BY <1>1, <1>3, ReadFacts DEF Event
<1>5. ObjectOf(object, e) = [object EXCEPT ![e.idx] = [soft |-> e.soft, hard |-> e.hard]]
  BY DEF ObjectOf, Told
<1>6. CASE add_killswitch(k, e)
  <2>1. e.idx \notin devices /\ KInv(k, devices \cup {e.idx}, ObjectOf(object, e))
    BY <1>1, <1>6, ReadsADD DEF add_killswitch
  <2>2. /\ devices' = devices \cup {e.idx}
        /\ object' = ObjectOf(object, e)
        /\ kernel' = AddedWrites(k, e.idx, e.soft)
    BY <1>5, <1>6, <2>1 DEF add_killswitch
  <2> HIDE DEF e, k
  <2> QED
    BY <1>1, <1>4, <2>1, <2>2, AddedWritesKeeps
<1>7. CASE remove_killswitch(k, e)
  <2>1. KInv(k, devices \ {e.idx}, object)
    BY <1>1, <1>7, ReadsDEL DEF remove_killswitch
  <2> QED
    BY <1>7, <2>1 DEF remove_killswitch
<1>8. CASE update_killswitch(k, e)
  <2>1. e.idx \in devices /\ KInv(k, devices, ObjectOf(object, e))
    BY <1>1, <1>8, ReadsCHANGE DEF update_killswitch
  <2> HIDE DEF e, k
  <2>2. KInv(ChangedWrites(k, e), devices, ObjectOf(object, e))
    BY <2>1, ChangedWritesKeeps
  <2>3. devices' = devices /\ kernel' \in {k, ChangedWrites(k, e)}
    BY <1>8 DEF update_killswitch
  <2>4. object' = ObjectOf(object, e)
    <3>1. CASE object[e.idx] = [soft |-> e.soft, hard |-> e.hard]
      <4>1. ObjectOf(object, e) = object /\ object' = object
        BY <3>1, <1>3, <1>5, <1>8 DEF update_killswitch
      <4> QED
        BY <4>1
    <3>2. CASE object[e.idx] # [soft |-> e.soft, hard |-> e.hard]
      BY <3>2, <1>5, <1>8, <2>1 DEF update_killswitch
    <3> QED
      BY <3>1, <3>2
  <2> QED
    BY <2>1, <2>2, <2>3, <2>4
<1> QED
  BY <1>2, <1>6, <1>7, <1>8

LEMMA OutsideKeeps == ASSUME IInv, Outside PROVE KInv(kernel', devices', object')
<1>1. KInv(kernel, devices, object) /\ kernel \in Kernel
  BY DEF IInv, KInv
<1>2. kernel.block \in [Devices -> Blocks] /\ kernel.present \subseteq Devices
  BY <1>1 DEF Kernel
<1>3. KInv(kernel', devices, object)
  <2>1. ASSUME NEW d \in Devices, Plug(d) PROVE KInv(kernel', devices, object)
    <3>1. d \notin kernel.present \cup kernel.gone
      BY <2>1 DEF Plug
    <3>2. PICK b \in Blocks : LET block == [kernel.block EXCEPT ![d] = b] IN
              kernel' = [kernel EXCEPT !.present = @ \cup {d}, !.block = block,
                                !.queue = Append(@, EventOf("ADD", d, block))]
      BY <2>1 DEF Plug
    <3> QED
      BY <1>1, <3>1, <3>2, Plugs
  <2>2. ASSUME NEW d \in Devices, Unplug(d) PROVE KInv(kernel', devices, object)
    BY <1>1, <2>2, Unplugs DEF Unplug
  <2>3. ASSUME NEW d \in Devices, HardSwitch(d) PROVE KInv(kernel', devices, object)
    <3> DEFINE b == [kernel.block[d] EXCEPT !.hard = ~ @]
    <3>1. b \in Blocks /\ d \in kernel.present
      BY <1>2, <2>3 DEF HardSwitch, Blocks
    <3>2. [kernel.block EXCEPT ![d].hard = ~ @] = [kernel.block EXCEPT ![d] = b]
      BY <1>2
    <3> HIDE DEF b
    <3>3. LET block == [kernel.block EXCEPT ![d] = b] IN
          kernel' = [kernel EXCEPT !.block = block,
                            !.queue = Append(@, EventOf("CHANGE", d, block))]
      BY <2>3, <3>2 DEF HardSwitch
    <3> QED
      BY <1>1, <3>1, <3>3, OneChanges
  <2>4. ASSUME NEW d \in Devices, ChangeOne(d) PROVE KInv(kernel', devices, object)
    <3> DEFINE b == [kernel.block[d] EXCEPT !.soft = ~ @]
    <3>1. b \in Blocks /\ d \in kernel.present
      BY <1>2, <2>4 DEF ChangeOne, Blocks
    <3>2. [kernel.block EXCEPT ![d].soft = ~ @] = [kernel.block EXCEPT ![d] = b]
      BY <1>2
    <3> HIDE DEF b
    <3>3. LET block == [kernel.block EXCEPT ![d] = b] IN
          kernel' = [kernel EXCEPT !.block = block,
                            !.queue = Append(@, EventOf("CHANGE", d, block))]
      BY <2>4, <3>2 DEF ChangeOne
    <3> QED
      BY <1>1, <3>1, <3>3, OneChanges
  <2>5. ASSUME NEW t \in Types, ChangeType(t) PROVE KInv(kernel', devices, object)
    BY <1>1, <2>5, AllChanges DEF ChangeType
  <2> QED
    BY <2>1, <2>2, <2>3, <2>4, <2>5 DEF Outside
<1> QED
  BY <1>3 DEF Outside

\* A call that is accepted writes, and is remembered with the devices left to ask.
LEMMA CallKeeps ==
    ASSUME IInv, Call
    PROVE  /\ KInv(kernel', devices', object')
           /\ request' \in [type : Types, block : BOOLEAN, left : SUBSET devices]
<1>1. KInv(kernel, devices, object)
  BY DEF IInv
<1>2. devices \subseteq Devices
  BY <1>1, KnownAreDevices
<1>3. PICK block \in BOOLEAN : \/ \E t \in Types : urf_daemon_block(t, block)
                               \/ \E d \in Devices : urf_daemon_block_idx(d, block)
  BY DEF Call
<1>4. ASSUME NEW t \in Types, urf_daemon_block(t, block)
      PROVE  /\ KInv(kernel', devices', object')
             /\ request' \in [type : Types, block : BOOLEAN, left : SUBSET devices]
  <2>1. OfType(t) \subseteq devices
    BY DEF OfType
  <2>2. kernel' = kernel \/ \E d \in OfType(t) : kernel' = set_soft(kernel, d, block)
    BY <1>4 DEF urf_daemon_block
  <2>3. KInv(kernel', devices, object)
    BY <1>1, <2>2, SetSoftKeeps
  <2>4. \E left \in SUBSET devices :
            request' = [type |-> t, block |-> block, left |-> left]
    BY <1>4, <2>1 DEF urf_daemon_block
  <2> QED
    BY <1>4, <2>3, <2>4 DEF urf_daemon_block
<1>5. ASSUME NEW d \in Devices, urf_daemon_block_idx(d, block)
      PROVE  /\ KInv(kernel', devices', object')
             /\ request' \in [type : Types, block : BOOLEAN, left : SUBSET devices]
  <2>1. TypeOf[d] \in Types
    BY ArbitratorAssumption
  <2>2. KInv(kernel', devices, object)
    BY <1>1, <1>5, SetSoftKeeps DEF urf_daemon_block_idx
  <2> QED
    BY <1>5, <2>1, <2>2 DEF urf_daemon_block_idx
<1> QED
  BY <1>3, <1>4, <1>5

LEMMA NextKeeps == ASSUME IInv, [Next]_vars PROVE IInv'
<1> DEFINE Requests == [type : Types, block : BOOLEAN, left : SUBSET devices]
<1>1. /\ KInv(kernel, devices, object) /\ RInv
      /\ kernel \in Kernel /\ object \in [Devices -> Blocks]
      /\ kernel.present \cap kernel.gone = {}
      /\ MaxInputs \in Nat
  BY ArbitratorAssumption DEF IInv, KInv, Known
<1>2. request # None => request \in Requests
  BY <1>1 DEF RInv
<1>3. CASE event_cb
  <2> DEFINE e == Head(kernel.queue)
             k == [kernel EXCEPT !.queue = Tail(@)]
  <2>1. KInv(kernel', devices', object')
    BY <1>3, EventKeeps
  <2>2. e.idx \in Devices /\ e.soft \in BOOLEAN
    BY <1>1, <1>3, ReadFacts DEF Event, event_cb
  <2>3. UNCHANGED <<config, inputs, single>>
    BY <1>3 DEF event_cb, history
  <2>4. add_killswitch(k, e) \/ remove_killswitch(k, e) \/ update_killswitch(k, e)
    BY <1>3 DEF event_cb
  <2> HIDE DEF e, k
  <2>5. CASE add_killswitch(k, e)
    <3>1. UNCHANGED <<saved, request>> /\ devices \subseteq devices'
      BY <2>5 DEF add_killswitch
    <3> QED
      BY <1>1, <2>1, <2>3, <3>1 DEF IInv, RInv
  <2>6. CASE remove_killswitch(k, e)
    <3>1. UNCHANGED saved /\ devices' = devices \ {e.idx}
      BY <2>6 DEF remove_killswitch
    <3>2. request' \in {None} \cup [type : Types, block : BOOLEAN, left : SUBSET devices']
      <4>1. CASE request = None
        BY <4>1, <2>6 DEF remove_killswitch
      <4>2. CASE request # None
        <5>1. request' = [request EXCEPT !.left = @ \ {e.idx}]
          BY <4>2, <2>6 DEF remove_killswitch
        <5> QED
          BY <4>2, <5>1, <1>2, <3>1
      <4> QED
        BY <4>1, <4>2
    <3> QED
      BY <1>1, <2>1, <2>3, <3>1, <3>2 DEF IInv, RInv
  <2>7. CASE update_killswitch(k, e)
    <3>1. UNCHANGED <<devices, request>>
          /\ saved' \in {saved, [saved EXCEPT ![TypeOf[e.idx]] = e.soft]}
      BY <2>7 DEF update_killswitch
    <3>2. saved' \in [Types -> BOOLEAN]
      BY <1>1, <2>2, <3>1 DEF RInv
    <3> QED
      BY <1>1, <2>1, <2>3, <3>1, <3>2 DEF IInv, RInv
  <2> QED
    BY <2>4, <2>5, <2>6, <2>7
<1>4. CASE soft_block_cb
  <2>1. request \in Requests
    BY <1>2, <1>4 DEF soft_block_cb
  <2>2. PICK d \in request.left : /\ kernel' = set_soft(kernel, d, request.block)
                                  /\ request' = [request EXCEPT !.left = @ \ {d}]
    BY <1>4 DEF soft_block_cb
  <2>3. KInv(kernel', devices, object)
    BY <1>1, <2>1, <2>2, SetSoftKeeps
  <2>4. request' \in Requests
    BY <2>1, <2>2
  <2> QED
    BY <1>1, <1>4, <2>3, <2>4 DEF soft_block_cb, IInv, RInv, history
<1>5. CASE block_cb
  <2>1. saved' \in [Types -> BOOLEAN]
    BY <1>1, <1>2, <1>5 DEF block_cb, RInv
  <2> QED
    BY <1>1, <1>5, <2>1 DEF block_cb, IInv, RInv, history
<1>6. CASE Input
  <2>1. inputs' \in 0..MaxInputs
    BY <1>1, <1>6 DEF Input, RInv
  <2>2. CASE Outside
    <3>1. UNCHANGED <<devices, saved, request, config>> /\ single' \in BOOLEAN
      BY <1>1, <2>2 DEF Outside, Plug, Unplug, HardSwitch, ChangeOne, ChangeType, RInv
    <3> QED
      BY <1>1, <2>1, <2>2, <3>1, OutsideKeeps DEF IInv, RInv
  <2>3. CASE Restart
    <3>1. KInv(kernel', devices', object')
      BY <1>1, <2>3, Starts DEF Restart
    <3> QED
      BY <1>1, <2>1, <2>3, <3>1 DEF Restart, IInv, RInv
  <2>4. CASE Call
    <3>1. UNCHANGED <<devices, saved, config, single>>
      BY <2>4 DEF Call, urf_daemon_block, urf_daemon_block_idx
    <3> QED
      BY <1>1, <2>1, <2>4, <3>1, CallKeeps DEF IInv, RInv
  <2> QED
    BY <1>6, <2>2, <2>3, <2>4 DEF Input
<1>7. CASE UNCHANGED vars
  BY <1>1, <1>7 DEF vars, history, IInv, RInv
<1> QED
  BY <1>3, <1>4, <1>5, <1>6, <1>7 DEF Next

LEMMA Inductive == Spec => []IInv
<1>1. Init => IInv
  BY Begins
<1>2. IInv /\ [Next]_vars => IInv'
  BY NextKeeps
<1> QED
  BY <1>1, <1>2, PTL DEF Spec

\* The kernel's devices and events, urfkilld's objects and the call in progress have
\* their types; in particular the devices that a Block call has still to ask are ones
\* that urfkilld has.
THEOREM ArbitratorTypeCorrect == Spec => []TypeOK
<1>1. IInv => TypeOK
  <2> SUFFICES ASSUME IInv PROVE TypeOK
    OBVIOUS
  <2>1. /\ kernel \in Kernel /\ kernel.present \cap kernel.gone = {}
        /\ object \in [Devices -> Blocks]
    BY DEF IInv, KInv, Known
  <2>2. devices \subseteq Devices
    BY KnownAreDevices DEF IInv
  <2> QED
    BY <2>1, <2>2 DEF TypeOK, Kernel, IInv, RInv
<1> QED
  BY <1>1, Inductive, PTL

LEMMA SyncedWhenRead ==
    ASSUME IInv, kernel.queue = <<>>
    PROVE  devices = kernel.present /\ \A d \in devices : object[d] = kernel.block[d]
<1>1. KInv(kernel, devices, object)
  BY DEF IInv
<1>2. Positions(kernel) = {}
  BY DEF Positions
<1>3. devices = kernel.present
  BY <1>1, <1>2 DEF KInv, Coming, Leaving, Announced
<1> QED
  BY <1>1, <1>2, <1>3 DEF KInv, Current

\* Whatever is plugged in, unplugged, switched and written while events are unread, and
\* whatever force_sync and persist write back: when the last event is read, urfkilld has
\* the devices the kernel has, with the blocks they have.
THEOREM ObjectsFollowKernel == Spec => []InSync
<1>1. IInv => InSync
  BY SyncedWhenRead DEF InSync
<1> QED
  BY <1>1, Inductive, PTL

-----------------------------------------------------------------------------
(* The devices of a type agree as soon as urfkilld knows them.             *)

\* The devices whose states an option keeps together.
Kept(d) == config.persist \/ (config.force_sync /\ d \notin Platform)

Agree(k, dv) ==
    \A d, e \in dv \cap k.present :
        TypeOf[d] = TypeOf[e] /\ Kept(d) /\ Kept(e) => k.block[d].soft = k.block[e].soft

\* After a write to a type all its devices agree, and no others change.
LEMMA WriteAgrees ==
    ASSUME NEW k \in Kernel, NEW t, NEW blocked \in BOOLEAN
    PROVE  LET k2 == CHANGE_ALL(k, t, blocked) IN
           /\ k2.present = k.present /\ k2 \in Kernel
           /\ \A d \in k.present : TypeOf[d] = t => k2.block[d].soft = blocked
           /\ \A d \in k.present : TypeOf[d] # t => k2.block[d] = k.block[d]
<1> DEFINE changed == {d \in k.present : TypeOf[d] = t /\ k.block[d].soft # blocked}
           block == [d \in Devices |-> IF d \in changed
                                       THEN [k.block[d] EXCEPT !.soft = blocked]
                                       ELSE k.block[d]]
           s == EventsOf("CHANGE", changed, block)
           k2 == CHANGE_ALL(k, t, blocked)
<1>1. k.present \subseteq Devices /\ k.block \in [Devices -> Blocks]
      /\ k.queue \in Seq(Event) /\ changed \in SUBSET Devices
  BY DEF Kernel
<1>2. block \in [Devices -> Blocks]
  BY <1>1 DEF Blocks
<1>3. \A d \in k.present : TypeOf[d] = t => block[d].soft = blocked
  BY <1>1 DEF Blocks
<1>4. \A d \in k.present : TypeOf[d] # t => block[d] = k.block[d]
  BY <1>1
<1>5. k2 = [k EXCEPT !.block = block, !.queue = @ \o s]
  BY DEF CHANGE_ALL
<1> HIDE DEF changed, block
<1>6. s \in Seq(Event)
  BY <1>1, <1>2, EventsOfReports DEF Reports
<1> HIDE DEF s, k2
<1>7. k.queue \o s \in Seq(Event)
  BY <1>1, <1>6, QueueGrows
<1>8. k2 \in Kernel /\ k2.present = k.present /\ k2.block = block
  BY <1>2, <1>5, <1>7 DEF Kernel
<1>9. /\ k2.present = k.present /\ k2 \in Kernel
      /\ \A d \in k.present : TypeOf[d] = t => k2.block[d].soft = blocked
      /\ \A d \in k.present : TypeOf[d] # t => k2.block[d] = k.block[d]
  BY <1>3, <1>4, <1>8
<1> QED
  BY <1>9 DEF k2

LEMMA WriteKeepsAgreement ==
    ASSUME NEW k \in Kernel, NEW dv, NEW t, NEW blocked \in BOOLEAN, Agree(k, dv)
    PROVE  Agree(CHANGE_ALL(k, t, blocked), dv)
<1> DEFINE k2 == CHANGE_ALL(k, t, blocked)
<1>1. /\ k2.present = k.present
      /\ \A d \in k.present : TypeOf[d] = t => k2.block[d].soft = blocked
      /\ \A d \in k.present : TypeOf[d] # t => k2.block[d] = k.block[d]
  BY WriteAgrees
<1> HIDE DEF k2
<1>2. Agree(k2, dv)
  BY <1>1 DEF Agree
<1> QED
  BY <1>2 DEF k2

\* What is written for a new device makes it agree with the others.
LEMMA AddedAgrees ==
    ASSUME NEW k \in Kernel, NEW dv, NEW d \in Devices, NEW soft \in BOOLEAN,
           saved \in [Types -> BOOLEAN], Agree(k, dv)
    PROVE  Agree(AddedWrites(k, d, soft), dv \cup {d})
<1> DEFINE t == TypeOf[d]
           forced == IF config.force_sync /\ d \notin Platform
                     THEN CHANGE_ALL(k, t, soft) ELSE k
           written == IF config.persist THEN CHANGE_ALL(forced, t, saved[t]) ELSE forced
<1>1. t \in Types /\ saved[t] \in BOOLEAN
  BY ArbitratorAssumption
<1>2. AddedWrites(k, d, soft) = written
  BY DEF AddedWrites, set_soft
<1> HIDE DEF t
<1>3. forced \in Kernel /\ Agree(forced, dv)
  BY WriteAgrees, WriteKeepsAgreement
<1>4. ASSUME config.force_sync, d \notin Platform, NEW e \in forced.present, TypeOf[e] = t
      PROVE  forced.block[e].soft = soft
  BY <1>4, WriteAgrees
<1> HIDE DEF forced
<1>5. CASE config.persist
  <2>1. /\ written = CHANGE_ALL(forced, t, saved[t])
        /\ \A e \in written.present : TypeOf[e] = t => written.block[e].soft = saved[t]
    BY <1>1, <1>3, <1>5, WriteAgrees
  <2>2. Agree(written, dv)
    BY <1>1, <1>3, <2>1, WriteKeepsAgreement
  <2> HIDE DEF written
  <2> QED
    BY <1>2, <2>1, <2>2 DEF Agree, t
<1>6. CASE ~ config.persist
  <2>1. written = forced
    BY <1>6
  <2> HIDE DEF written
  <2> QED
    BY <1>2, <1>3, <1>4, <1>6, <2>1 DEF Agree, Kept, t
<1> QED
  BY <1>5, <1>6

AInv == ~ single => Agree(kernel, devices)

LEMMA AgreeStep ==
    ASSUME IInv, AInv, [Next]_vars
    PROVE  AInv'
<1>1. /\ KInv(kernel, devices, object) /\ kernel \in Kernel
      /\ kernel.present \subseteq Devices /\ kernel.block \in [Devices -> Blocks]
      /\ devices \subseteq kernel.present \cup kernel.gone
      /\ request # None => request.block \in BOOLEAN
  BY DEF IInv, KInv, Kernel, Known, RInv
<1>2. ASSUME UNCHANGED <<single, config, devices>>,
             kernel' = kernel
      PROVE  AInv'
  BY <1>2 DEF AInv, Agree, Kept
<1>3. ASSUME UNCHANGED <<single, config, devices>>, NEW t, NEW blocked \in BOOLEAN,
             kernel' = CHANGE_ALL(kernel, t, blocked)
      PROVE  AInv'
  <2>1. ~ single => Agree(kernel', devices)
    BY <1>1, <1>3, WriteKeepsAgreement DEF AInv
  <2> QED
    BY <1>3, <2>1 DEF AInv, Agree, Kept
<1>4. CASE event_cb
  <2> DEFINE e == Head(kernel.queue)
             k == Read(kernel)
  <2>1. kernel.queue # <<>> /\ UNCHANGED <<single, config>>
    BY <1>4 DEF event_cb, history
  <2>2. /\ k \in Kernel /\ k.present = kernel.present /\ k.block = kernel.block
        /\ e.idx \in Devices /\ e.soft \in BOOLEAN
    BY <1>1, <2>1, ReadFacts DEF Event
  <2>3. add_killswitch(k, e) \/ remove_killswitch(k, e) \/ update_killswitch(k, e)
    BY <1>4 DEF event_cb, Read
  <2> HIDE DEF e, k
  <2>4. ~ single => Agree(k, devices)
    BY <2>2 DEF AInv, Agree
  <2>5. CASE add_killswitch(k, e)
    <3>1. CASE kernel' = k /\ UNCHANGED devices
      BY <2>1, <2>4, <3>1 DEF AInv, Agree, Kept
    <3>2. CASE devices' = devices \cup {e.idx} /\ kernel' = AddedWrites(k, e.idx, e.soft)
      <4>1. ~ single => Agree(kernel', devices')
        BY <2>2, <2>4, <3>2, AddedAgrees DEF IInv, RInv
      <4> QED
        BY <2>1, <4>1 DEF AInv, Agree, Kept
    <3> QED
      BY <2>5, <3>1, <3>2 DEF add_killswitch
  <2>6. CASE remove_killswitch(k, e)
    BY <2>1, <2>4, <2>6 DEF remove_killswitch, AInv, Agree, Kept
  <2>7. CASE update_killswitch(k, e)
    <3>1. UNCHANGED devices /\ kernel' \in {k, ChangedWrites(k, e)}
      BY <2>7 DEF update_killswitch
    <3>2. ~ single => Agree(ChangedWrites(k, e), devices)
      BY <2>2, <2>4, WriteKeepsAgreement DEF ChangedWrites, set_soft
    <3>3. ~ single => Agree(kernel', devices)
      BY <2>4, <3>1, <3>2
    <3> QED
      BY <2>1, <3>1, <3>3 DEF AInv, Agree, Kept
  <2> QED
    BY <2>3, <2>5, <2>6, <2>7
<1>5. CASE soft_block_cb
  <2>1. request.block \in BOOLEAN /\ UNCHANGED <<single, config, devices>>
    BY <1>1, <1>5 DEF soft_block_cb, history
  <2>2. PICK d \in request.left : kernel' = CHANGE_ALL(kernel, TypeOf[d], request.block)
    BY <1>5 DEF soft_block_cb, set_soft
  <2> QED
    BY <2>1, <2>2, <1>3
<1>6. CASE block_cb
  BY <1>2, <1>6 DEF block_cb, history
<1>7. CASE Input
  <2>1. CASE Outside
    <3>1. ASSUME NEW d \in Devices, Plug(d) PROVE AInv'
      <4>1. /\ d \notin devices /\ kernel'.present = kernel.present \cup {d}
            /\ \A e \in Devices \ {d} : kernel'.block[e] = kernel.block[e]
        BY <1>1, <3>1 DEF Plug, Kernel
      <4>2. UNCHANGED <<single, config, devices>>
        BY <2>1, <3>1 DEF Outside, Plug
      <4>3. \A e \in devices \cap kernel'.present : e \in kernel.present /\ e \in Devices \ {d}
        BY <1>1, <4>1
      <4> QED
        BY <4>1, <4>2, <4>3 DEF AInv, Agree, Kept
    <3>2. ASSUME NEW d \in Devices, Unplug(d) PROVE AInv'
      <4>1. kernel'.present = kernel.present \ {d} /\ kernel'.block = kernel.block
        BY <1>1, <3>2 DEF Unplug, Kernel
      <4>2. UNCHANGED <<single, config, devices>>
        BY <2>1, <3>2 DEF Outside, Unplug
      <4>3. devices \cap kernel'.present \subseteq devices \cap kernel.present
        BY <4>1
      <4> QED
        BY <4>1, <4>2, <4>3 DEF AInv, Agree, Kept
    <3>3. ASSUME NEW d \in Devices, HardSwitch(d) PROVE AInv'
      <4>1. /\ kernel'.present = kernel.present
            /\ kernel'.block = [kernel.block EXCEPT ![d].hard = ~ @]
        BY <1>1, <3>3 DEF HardSwitch, Kernel
      <4>2. \A e \in Devices : kernel'.block[e].soft = kernel.block[e].soft
        BY <1>1, <4>1 DEF Blocks
      <4>3. UNCHANGED <<single, config, devices>>
        BY <2>1, <3>3 DEF Outside, HardSwitch
      <4> QED
        BY <1>1, <4>1, <4>2, <4>3 DEF AInv, Agree, Kept
    <3>4. ASSUME NEW d \in Devices, ChangeOne(d) PROVE AInv'
      BY <3>4 DEF ChangeOne, AInv
    <3>5. ASSUME NEW t \in Types, ChangeType(t) PROVE AInv'
      <4>1. PICK blocked \in BOOLEAN : kernel' = CHANGE_ALL(kernel, t, blocked)
        BY <3>5 DEF ChangeType
      <4> QED
        BY <2>1, <3>5, <4>1, <1>3 DEF Outside, ChangeType
    <3> QED
      BY <2>1, <3>1, <3>2, <3>3, <3>4, <3>5 DEF Outside
  <2>2. CASE Restart
    BY <2>2 DEF Restart, AInv, Agree
  <2>3. CASE Call
    <3>1. UNCHANGED <<single, config, devices>>
      BY <2>3 DEF Call, urf_daemon_block, urf_daemon_block_idx
    <3>2. kernel' = kernel \/ \E d \in Devices, block \in BOOLEAN :
                                kernel' = CHANGE_ALL(kernel, TypeOf[d], block)
      <4>1. devices \subseteq Devices
        BY <1>1, KnownAreDevices
      <4> QED
        BY <2>3, <4>1 DEF Call, urf_daemon_block, urf_daemon_block_idx, set_soft, OfType
    <3> QED
      BY <3>1, <3>2, <1>2, <1>3
  <2> QED
    BY <1>7, <2>1, <2>2, <2>3 DEF Input
<1>8. CASE UNCHANGED vars
  BY <1>2, <1>8 DEF vars, history
<1> QED
  BY <1>4, <1>5, <1>6, <1>7, <1>8 DEF Next

\* With either option the devices of a type agree once the events are read, whatever
\* state they were plugged in with, if no program sets a device on its own.
THEOREM TypesAgree == Spec => []TypeInSync
<1>1. Init => AInv
  BY DEF Init, AInv, Agree
<1>2. IInv /\ AInv /\ [Next]_vars => AInv'
  BY AgreeStep
<1>3. IInv /\ AInv => TypeInSync
  <2> SUFFICES ASSUME IInv, AInv, kernel.queue = <<>>, ~ single PROVE TypeInSync
    BY DEF TypeInSync, Settled
  <2>1. devices = kernel.present
    BY SyncedWhenRead
  <2> QED
    BY <2>1 DEF TypeInSync, AInv, Agree, Kept
<1> QED
  BY <1>1, <1>2, <1>3, Inductive, PTL DEF Spec
=============================================================================
