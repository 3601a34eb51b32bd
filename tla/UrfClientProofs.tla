--------------------------- MODULE UrfClientProofs ---------------------------
(***************************************************************************)
(* Proofs about UrfClient, for any devices and any number of inputs that   *)
(* ClientAssumption allows: what a device object shows when the program is *)
(* told that its device changed.                                           *)
(***************************************************************************)
EXTENDS UrfClient, FiniteSetTheorems, FunctionTheorems, SequenceTheorems,
        WellFoundedInduction, TLAPS

-----------------------------------------------------------------------------
(* The sequences that a device is taken from.                              *)

LEMMA HasLeast ==
    ASSUME NEW set \in SUBSET Nat, set # {}
    PROVE  Min(set) \in set /\ \A y \in set : Min(set) <= y
<1> DEFINE R == {p \in Nat \X Nat : p[1] < p[2]}
<1>1. ASSUME NEW x \in Nat, NEW y \in Nat, y < x PROVE <<y, x>> \in R
  BY <1>1
<1>2. IsWellFoundedOn(R, Nat)
  BY NatLessThanWellFounded DEF OpToRel
<1> HIDE DEF R
<1>3. PICK x \in set : \A y \in set : ~ (<<y, x>> \in R)
  BY <1>2, WFMin
<1>4. ASSUME NEW y \in set PROVE x =< y
  <2>1. x \in Nat /\ y \in Nat
    OBVIOUS
  <2>2. ~ (y < x)
    BY <1>1, <1>3, <2>1
  <2> QED
    BY <2>1, <2>2
<1> QED
  BY <1>4 DEF Min

LEMMA RemoveAtKeeps ==
    ASSUME NEW S, NEW s \in Seq(S), NEW i \in 1..Len(s)
    PROVE  /\ RemoveAt(s, i) \in Seq(S)
           /\ \A j \in 1..Len(RemoveAt(s, i)) : \E k \in 1..Len(s) : RemoveAt(s, i)[j] = s[k]
<1> DEFINE a == SubSeq(s, 1, i - 1)
           b == SubSeq(s, i + 1, Len(s))
<1>1. Len(s) \in Nat /\ \A k \in 1..Len(s) : s[k] \in S
  BY ElementOfSeq, LenProperties
<1>2. a \in Seq(S) /\ Len(a) = i - 1 /\ \A j \in 1..(i - 1) : a[j] = s[j]
  <2>1. \A k \in 1..(i - 1) : s[k] \in S
    BY <1>1
  <2>2. /\ a \in Seq(S)
        /\ Len(a) = IF 1 <= i - 1 THEN i - 1 - 1 + 1 ELSE 0
        /\ \A j \in 1..(i - 1 - 1 + 1) : a[j] = s[1 + j - 1]
    BY <2>1, SubSeqProperties
  <2> HIDE DEF a
  <2> QED
    BY <2>2
<1>3. /\ b \in Seq(S) /\ Len(b) = Len(s) - i
      /\ \A j \in 1..(Len(s) - i) : b[j] = s[i + j]
  <2>1. \A k \in (i + 1)..Len(s) : s[k] \in S
    BY <1>1
  <2>2. /\ b \in Seq(S)
        /\ Len(b) = IF i + 1 <= Len(s) THEN Len(s) - (i + 1) + 1 ELSE 0
        /\ \A j \in 1..(Len(s) - (i + 1) + 1) : b[j] = s[i + 1 + j - 1]
    BY <1>1, <2>1, SubSeqProperties
  <2> HIDE DEF b
  <2> QED
    BY <1>1, <2>2
<1>4. RemoveAt(s, i) = a \o b
  BY DEF RemoveAt
<1> HIDE DEF a, b
<1>5. /\ a \o b \in Seq(S) /\ Len(a \o b) = Len(a) + Len(b)
      /\ \A j \in 1..(Len(a) + Len(b)) : (a \o b)[j] = IF j <= Len(a) THEN a[j] ELSE b[j - Len(a)]
  BY <1>2, <1>3, ConcatProperties
<1>6. ASSUME NEW j \in 1..(Len(a) + Len(b)) PROVE \E k \in 1..Len(s) : (a \o b)[j] = s[k]
  <2>1. CASE j <= Len(a)
    <3>1. j \in 1..Len(s) /\ (a \o b)[j] = s[j]
      BY <1>1, <1>2, <1>5, <2>1
    <3> QED
      BY <3>1
  <2>2. CASE ~ j <= Len(a)
    <3>1. j - Len(a) \in 1..Len(b) /\ (a \o b)[j] = b[j - Len(a)]
      BY <1>1, <1>2, <1>3, <1>5, <2>2
    <3>2. i + (j - Len(a)) \in 1..Len(s) /\ (a \o b)[j] = s[i + (j - Len(a))]
      BY <1>1, <1>2, <1>3, <3>1
    <3> QED
      BY <3>2
  <2> QED
    BY <2>1, <2>2
<1> QED
  BY <1>4, <1>5, <1>6

\* The first device of a path is taken from a list.
LEMMA RemoveFirstKeeps ==
    ASSUME NEW S, NEW s \in Seq(S), NEW e
    PROVE  RemoveFirst(s, e) \in Seq(S)
<1> DEFINE I == {i \in 1..Len(s) : s[i] = e}
<1> I \in SUBSET Nat
  BY LenProperties
<1>1. CASE I = {}
  BY <1>1 DEF RemoveFirst
<1>2. CASE I # {}
  <2> DEFINE m == Min(I)
  <2>1. m \in I
    <3> HIDE DEF I
    <3> QED
      BY <1>2, HasLeast
  <2>2. RemoveFirst(s, e) = RemoveAt(s, m)
    BY <1>2 DEF RemoveFirst, SelectInSeq
  <2>3. m \in 1..Len(s)
    BY <2>1
  <2> HIDE DEF I, m
  <2> QED
    BY <2>2, <2>3, RemoveAtKeeps
<1> QED
  BY <1>1, <1>2

LEMMA RemovedFromList ==
    ASSUME NEW S, list \in Seq(S), NEW p, device_removed(p)
    PROVE  /\ list' \in Seq(S)
           /\ \A j \in 1..Len(list') : \E k \in 1..Len(list) : list'[j] = list[k]
<1> DEFINE I == {i \in 1..Len(list) : list[i].path = p}
<1> I \in SUBSET Nat
  BY LenProperties
<1>1. CASE I = {}
  <2>1. list' = list
    BY <1>1 DEF device_removed, RemoveFirstMatch
  <2> QED
    BY <2>1
<1>2. CASE I # {}
  <2> DEFINE m == Min(I)
  <2>1. m \in I
    <3> HIDE DEF I
    <3> QED
      BY <1>2, HasLeast
  <2>2. list' = RemoveAt(list, m)
    BY <1>2 DEF device_removed, RemoveFirstMatch, SelectInSeq
  <2>3. m \in 1..Len(list)
    BY <2>1
  <2> HIDE DEF I, m
  <2> QED
    BY <2>2, <2>3, RemoveAtKeeps
<1> QED
  BY <1>1, <1>2

-----------------------------------------------------------------------------
(* What the signals that wait are worth, while the daemon is the one that  *)
(* the client began with.                                                  *)

Messages == [signal : Signals, path : Paths, value : Int]
DeviceObject == [path : Devices, state : Nat \cup {Unknown}, skip : Nat]

\* The property changes of an object among the messages q, and those ahead of one.
Changes(q, path) ==
    {i \in 1..Len(q) : q[i].signal = "PropertiesChanged" /\ q[i].path = path}
AheadOf(q, path, i) == {j \in Changes(q, path) : j < i}

\* No message tells of what is yet to come, and a DeviceChanged comes right after the
\* property change it goes with.
Sound(q, st) ==
    /\ q \in Seq(Messages)
    /\ \A i \in 1..Len(q) :
         /\ q[i].signal # "NameOwnerChanged"
         /\ q[i].signal \notin {"PropertiesChanged", "NameOwnerChanged"} => q[i].path \in Devices
         /\ q[i].path \in Devices => q[i].value \in Nat /\ q[i].value <= st[q[i].path]
         /\ q[i].signal = "DeviceChanged" /\ i # 1 =>
              q[i - 1] = Message("PropertiesChanged", q[i].path, q[i].value)

\* What an object misses it knew when it was read, and it shows what the next message
\* tells of.
Shows(r, q) ==
    /\ r.skip <= Cardinality(Changes(q, r.path))
    /\ r.state # Unknown =>
         /\ \A i \in Changes(q, r.path) :
              Cardinality(AheadOf(q, r.path, i)) < r.skip => q[i].value <= r.state
         /\ q # <<>> /\ q[1].signal = "DeviceChanged" /\ q[1].path = r.path
            => q[1].value <= r.state

Calm ==
    /\ state \in [Devices -> Nat]
    /\ devices \in Seq(Devices) /\ todo \in Seq(Devices)
    /\ asked = {}
    /\ Sound(queue, state)
    /\ list \in Seq(DeviceObject)
    /\ \A i \in 1..Len(list) : Shows(list[i], queue)

CInv == restarts \in Nat /\ (restarts = 0 => Calm)

LEMMA Counts ==
    ASSUME NEW q \in Seq(Messages), NEW path
    PROVE  /\ IsFiniteSet(Changes(q, path)) /\ Cardinality(Changes(q, path)) \in Nat
           /\ \A i \in Nat : /\ IsFiniteSet(AheadOf(q, path, i))
                             /\ Cardinality(AheadOf(q, path, i)) \in Nat
<1>1. Changes(q, path) \in SUBSET (1..Len(q)) /\ IsFiniteSet(1..Len(q))
  <2>1. Len(q) \in Nat
    BY LenProperties
  <2>2. IsFiniteSet(1..Len(q))
    BY <2>1, FS_Interval
  <2> QED
    BY <2>2 DEF Changes
<1>2. IsFiniteSet(Changes(q, path)) /\ Cardinality(Changes(q, path)) \in Nat
  BY <1>1, FS_Subset, FS_CardinalityType
<1>3. ASSUME NEW i \in Nat
      PROVE  /\ IsFiniteSet(AheadOf(q, path, i))
             /\ Cardinality(AheadOf(q, path, i)) \in Nat
  <2>1. AheadOf(q, path, i) \in SUBSET Changes(q, path)
    BY DEF AheadOf
  <2> QED
    BY <1>2, <2>1, FS_Subset, FS_CardinalityType
<1> QED
  BY <1>2, <1>3

LEMMA OneMore ==
    ASSUME NEW q \in Seq(Messages), NEW m \in Messages
    PROVE  /\ Append(q, m) \in Seq(Messages) /\ Len(Append(q, m)) = Len(q) + 1
           /\ \A i \in 1..Len(q) : Append(q, m)[i] = q[i]
           /\ Append(q, m)[Len(q) + 1] = m
           /\ Len(q) \in Nat
  BY AppendProperties, LenProperties

\* One more message.
LEMMA SentIsSound ==
    ASSUME NEW q, NEW st \in [Devices -> Nat], NEW st2 \in [Devices -> Nat], Sound(q, st),
           \A d \in Devices : st[d] <= st2[d],
           NEW m \in Messages, m.signal # "NameOwnerChanged",
           m.signal # "PropertiesChanged" => m.path \in Devices,
           m.path \in Devices => m.value \in Nat /\ m.value <= st2[m.path],
           m.signal = "DeviceChanged" =>
               q # <<>> /\ q[Len(q)] = Message("PropertiesChanged", m.path, m.value)
    PROVE  Sound(Append(q, m), st2)
<1> DEFINE q2 == Append(q, m)
<1>1. q \in Seq(Messages) /\ \A i \in 1..Len(q) : q[i] \in Messages
  BY ElementOfSeq DEF Sound
<1>2. /\ q2 \in Seq(Messages) /\ Len(q2) = Len(q) + 1 /\ Len(q) \in Nat
      /\ \A i \in 1..Len(q) : q2[i] = q[i]
      /\ q2[Len(q) + 1] = m
  BY <1>1, OneMore
<1> HIDE DEF q2
<1>3. ASSUME NEW i \in 1..Len(q2)
      PROVE  /\ q2[i].signal # "NameOwnerChanged"
             /\ q2[i].signal \notin {"PropertiesChanged", "NameOwnerChanged"}
                => q2[i].path \in Devices
             /\ q2[i].path \in Devices => q2[i].value \in Nat /\ q2[i].value <= st2[q2[i].path]
             /\ q2[i].signal = "DeviceChanged" /\ i # 1 =>
                  q2[i - 1] = Message("PropertiesChanged", q2[i].path, q2[i].value)
  <2>1. CASE i = Len(q) + 1
    <3>1. q2[i] = m
      BY <1>2, <2>1
    <3>2. i # 1 => i - 1 = Len(q) /\ q2[i - 1] = q[Len(q)]
      BY <1>2, <2>1
    <3> QED
      BY <3>1, <3>2
  <2>2. CASE i \in 1..Len(q)
    <3>1. q2[i] = q[i] /\ (i # 1 => q2[i - 1] = q[i - 1])
      BY <1>2, <2>2
    <3>2. /\ q[i].signal # "NameOwnerChanged"
          /\ q[i].signal \notin {"PropertiesChanged", "NameOwnerChanged"} => q[i].path \in Devices
          /\ q[i].path \in Devices => q[i].value \in Nat /\ q[i].value <= st[q[i].path]
          /\ q[i].signal = "DeviceChanged" /\ i # 1 =>
               q[i - 1] = Message("PropertiesChanged", q[i].path, q[i].value)
      BY <2>2 DEF Sound
    <3>3. q[i].path \in Devices => q[i].value <= st2[q[i].path]
      <4> DEFINE d == q[i].path
                 v == q[i].value
      <4>1. d \in Devices => v \in Nat /\ v <= st[d] /\ st[d] \in Nat /\ st2[d] \in Nat
                             /\ st[d] <= st2[d]
        BY <3>2
      <4> HIDE DEF d, v
      <4>2. d \in Devices => v <= st2[d]
        BY <4>1
      <4> QED
        BY <4>2 DEF d, v
    <3> QED
      BY <3>1, <3>2, <3>3
  <2> QED
    BY <1>2, <2>1, <2>2
<1> QED
  BY <1>2, <1>3 DEF Sound, q2

LEMMA SentShows ==
    ASSUME NEW q \in Seq(Messages), NEW r \in DeviceObject, Shows(r, q),
           NEW m \in Messages, m.signal = "DeviceChanged" => q # <<>>
    PROVE  Shows(r, Append(q, m))
<1> DEFINE q2 == Append(q, m)
           p == r.path
<1>1. /\ q2 \in Seq(Messages) /\ Len(q2) = Len(q) + 1 /\ Len(q) \in Nat
      /\ \A i \in 1..Len(q) : q2[i] = q[i]
      /\ q2[Len(q) + 1] = m
  BY OneMore
<1> HIDE DEF q2
<1>2. Changes(q, p) \subseteq Changes(q2, p)
  BY <1>1 DEF Changes
<1>3. \A i \in Changes(q2, p) : i \in Changes(q, p) \/ i = Len(q) + 1
  BY <1>1 DEF Changes
<1>4. \A i \in Changes(q, p) : AheadOf(q2, p, i) = AheadOf(q, p, i) /\ i \in 1..Len(q)
  BY <1>1, <1>2, <1>3 DEF AheadOf, Changes
<1>5. AheadOf(q2, p, Len(q) + 1) = Changes(q, p)
  BY <1>1, <1>2, <1>3 DEF AheadOf, Changes
<1>6. /\ IsFiniteSet(Changes(q2, p)) /\ Cardinality(Changes(q2, p)) \in Nat
      /\ Cardinality(Changes(q, p)) \in Nat
  BY <1>1, Counts
<1>7. Cardinality(Changes(q, p)) <= Cardinality(Changes(q2, p))
  BY <1>2, <1>6, FS_Subset
<1>8. r.skip \in Nat /\ r.skip <= Cardinality(Changes(q, p))
  BY DEF Shows, DeviceObject
<1>9. r.skip <= Cardinality(Changes(q2, p))
  BY <1>6, <1>7, <1>8
<1>10. ASSUME r.state # Unknown, NEW i \in Changes(q2, p),
              Cardinality(AheadOf(q2, p, i)) < r.skip
       PROVE  q2[i].value <= r.state
  <2>1. CASE i = Len(q) + 1
    BY <1>5, <1>6, <1>8, <1>10, <2>1
  <2>2. CASE i \in Changes(q, p)
    <3>1. Cardinality(AheadOf(q, p, i)) < r.skip /\ q2[i] = q[i]
      BY <1>1, <1>4, <1>10, <2>2
    <3> QED
      BY <1>10, <2>2, <3>1 DEF Shows
  <2> QED
    BY <1>3, <2>1, <2>2
<1>11. ASSUME r.state # Unknown, q2[1].signal = "DeviceChanged", q2[1].path = p
       PROVE  q2[1].value <= r.state
  <2>1. q # <<>>
    BY <1>1, <1>11, EmptySeq
  <2>2. q2[1] = q[1]
    BY <1>1, <2>1, EmptySeq
  <2> QED
    BY <1>11, <2>1, <2>2 DEF Shows
<1> QED
  BY <1>9, <1>10, <1>11 DEF Shows, q2

\* A message is read.
LEMMA Shift ==
    ASSUME NEW S \in SUBSET (Nat \ {0}), NEW T \in SUBSET (Nat \ {0}), IsFiniteSet(S),
           \A j \in Nat \ {0} : j \in T <=> j + 1 \in S
    PROVE  Cardinality(S) = IF 1 \in S THEN Cardinality(T) + 1 ELSE Cardinality(T)
<1> DEFINE U == S \ {1}
           f == [i \in U |-> i - 1]
<1>1. IsFiniteSet(U) /\ Cardinality(U) = IF 1 \in S THEN Cardinality(S) - 1 ELSE Cardinality(S)
  BY FS_RemoveElement
<1>2. Cardinality(S) \in Nat
  BY FS_CardinalityType
<1>3. \A i \in U : i - 1 \in T
  <2> SUFFICES ASSUME NEW i \in U PROVE i - 1 \in T
    OBVIOUS
  <2>1. i - 1 \in Nat \ {0} /\ (i - 1) + 1 = i
    OBVIOUS
  <2> QED
    BY <2>1
<1>4. f \in Injection(U, T)
  <2>1. f \in [U -> T]
    BY <1>3
  <2>2. ASSUME NEW a \in U, NEW b \in U, f[a] = f[b] PROVE a = b
    BY <2>2
  <2> QED
    BY <2>1, <2>2, Fun_IsInj
<1>5. f \in Surjection(U, T)
  <2>1. f \in [U -> T]
    BY <1>3
  <2>2. ASSUME NEW t \in T PROVE \E i \in U : f[i] = t
    <3>1. t + 1 \in U /\ f[t + 1] = t
      OBVIOUS
    <3> QED
      BY <3>1
  <2> QED
    BY <2>1, <2>2, Fun_IsSurj
<1>6. ExistsBijection(U, T)
  BY <1>4, <1>5 DEF ExistsBijection, Bijection
<1>7. Cardinality(T) = Cardinality(U)
  <2> HIDE DEF U
  <2> QED
    BY <1>1, <1>6, FS_Bijection
<1> QED
  BY <1>1, <1>2, <1>7

LEMMA Rest ==
    ASSUME NEW q \in Seq(Messages), q # <<>>
    PROVE  /\ Tail(q) \in Seq(Messages) /\ Len(q) \in Nat \ {0} /\ Len(Tail(q)) = Len(q) - 1
           /\ Head(q) = q[1] /\ q[1] \in Messages
           /\ \A i \in 1..Len(Tail(q)) : Tail(q)[i] = q[i + 1] /\ i + 1 \in 1..Len(q)
<1>1. Len(q) \in Nat \ {0}
  BY EmptySeq
<1>2. /\ Tail(q) \in Seq(Messages) /\ Len(Tail(q)) = Len(q) - 1
      /\ \A i \in 1..Len(Tail(q)) : Tail(q)[i] = q[i + 1]
  BY HeadTailProperties
<1>3. Head(q) = q[1] /\ 1 \in 1..Len(q)
  BY <1>1
<1>4. q[1] \in Messages
  BY <1>3, ElementOfSeq
<1> QED
  BY <1>1, <1>2, <1>3, <1>4

LEMMA ReadIsSound ==
    ASSUME NEW q, NEW st, Sound(q, st), q # <<>>
    PROVE  Sound(Tail(q), st)
<1> DEFINE t == Tail(q)
<1>1. /\ t \in Seq(Messages) /\ Len(t) = Len(q) - 1 /\ Len(q) \in Nat \ {0}
      /\ \A i \in 1..Len(t) : t[i] = q[i + 1] /\ i + 1 \in 1..Len(q)
  BY Rest DEF Sound
<1> HIDE DEF t
<1>2. ASSUME NEW i \in 1..Len(t)
      PROVE  /\ t[i].signal # "NameOwnerChanged"
             /\ t[i].signal \notin {"PropertiesChanged", "NameOwnerChanged"}
                => t[i].path \in Devices
             /\ t[i].path \in Devices => t[i].value \in Nat /\ t[i].value <= st[t[i].path]
             /\ t[i].signal = "DeviceChanged" /\ i # 1 =>
                  t[i - 1] = Message("PropertiesChanged", t[i].path, t[i].value)
  <2>1. t[i] = q[i + 1] /\ i + 1 \in 1..Len(q) /\ i + 1 # 1 /\ (i + 1) - 1 = i
    BY <1>1
  <2>2. i # 1 => t[i - 1] = q[i]
    BY <1>1
  <2>3. /\ q[i + 1].signal # "NameOwnerChanged"
        /\ q[i + 1].signal \notin {"PropertiesChanged", "NameOwnerChanged"}
           => q[i + 1].path \in Devices
        /\ q[i + 1].path \in Devices
           => q[i + 1].value \in Nat /\ q[i + 1].value <= st[q[i + 1].path]
        /\ q[i + 1].signal = "DeviceChanged" =>
             q[i] = Message("PropertiesChanged", q[i + 1].path, q[i + 1].value)
    BY <2>1 DEF Sound
  <2> QED
    BY <2>1, <2>2, <2>3
<1> QED
  BY <1>1, <1>2 DEF Sound, t

\* What changed_cb makes of an object.
Heard(r, path, value) ==
    IF r.path # path THEN r
    ELSE IF r.skip > 0 THEN [r EXCEPT !.skip = @ - 1]
    ELSE IF r.state = Unknown THEN r
    ELSE [r EXCEPT !.state = value]

LEMMA Shifted ==
    ASSUME NEW q \in Seq(Messages), q # <<>>, NEW p
    PROVE  /\ 1 \in Changes(q, p) <=> Head(q).signal = "PropertiesChanged" /\ Head(q).path = p
           /\ Cardinality(Changes(q, p)) = IF 1 \in Changes(q, p)
                                           THEN Cardinality(Changes(Tail(q), p)) + 1
                                           ELSE Cardinality(Changes(Tail(q), p))
           /\ \A i \in Changes(Tail(q), p) :
                /\ i + 1 \in Changes(q, p) /\ Tail(q)[i] = q[i + 1]
                /\ Cardinality(AheadOf(q, p, i + 1)) =
                     IF 1 \in Changes(q, p) THEN Cardinality(AheadOf(Tail(q), p, i)) + 1
                     ELSE Cardinality(AheadOf(Tail(q), p, i))
<1> DEFINE t == Tail(q)
<1>1. /\ t \in Seq(Messages) /\ Len(q) \in Nat \ {0} /\ Len(t) = Len(q) - 1
      /\ Head(q) = q[1]
      /\ \A i \in 1..Len(t) : t[i] = q[i + 1] /\ i + 1 \in 1..Len(q)
  BY Rest
<1> HIDE DEF t
<1>2. 1 \in Changes(q, p) <=> Head(q).signal = "PropertiesChanged" /\ Head(q).path = p
  BY <1>1 DEF Changes
<1>3. /\ IsFiniteSet(Changes(q, p)) /\ Changes(q, p) \in SUBSET (Nat \ {0})
      /\ Changes(t, p) \in SUBSET (Nat \ {0})
  <2>1. IsFiniteSet(Changes(q, p))
    BY Counts
  <2>2. Len(q) \in Nat /\ Len(t) \in Nat
    BY <1>1
  <2>3. 1..Len(q) \subseteq Nat \ {0} /\ 1..Len(t) \subseteq Nat \ {0}
    BY <2>2
  <2> QED
    BY <2>1, <2>3 DEF Changes
<1>4. ASSUME NEW j \in Nat \ {0} PROVE j \in Changes(t, p) <=> j + 1 \in Changes(q, p)
  <2>1. j \in 1..Len(t) <=> j + 1 \in 1..Len(q)
    BY <1>1
  <2>2. j \in 1..Len(t) => t[j] = q[j + 1]
    BY <1>1
  <2> QED
    BY <2>1, <2>2 DEF Changes
<1>5. Cardinality(Changes(q, p)) = IF 1 \in Changes(q, p) THEN Cardinality(Changes(t, p)) + 1
                                   ELSE Cardinality(Changes(t, p))
  BY <1>3, <1>4, Shift
<1>6. ASSUME NEW i \in Changes(t, p)
      PROVE  /\ i + 1 \in Changes(q, p) /\ t[i] = q[i + 1]
             /\ Cardinality(AheadOf(q, p, i + 1)) =
                  IF 1 \in Changes(q, p) THEN Cardinality(AheadOf(t, p, i)) + 1
                  ELSE Cardinality(AheadOf(t, p, i))
  <2>1. i \in Nat \ {0} /\ i + 1 \in Changes(q, p) /\ t[i] = q[i + 1]
    BY <1>1, <1>3, <1>4 DEF Changes
  <2>2. /\ AheadOf(q, p, i + 1) \in SUBSET (Nat \ {0}) /\ AheadOf(t, p, i) \in SUBSET (Nat \ {0})
        /\ IsFiniteSet(AheadOf(q, p, i + 1))
    <3>1. IsFiniteSet(AheadOf(q, p, i + 1))
      BY <2>1, Counts
    <3> QED
      BY <1>3, <3>1 DEF AheadOf
  <2>3. ASSUME NEW j \in Nat \ {0}
        PROVE  j \in AheadOf(t, p, i) <=> j + 1 \in AheadOf(q, p, i + 1)
    <3>1. j \in Changes(t, p) <=> j + 1 \in Changes(q, p)
      BY <1>4
    <3>2. j < i <=> j + 1 < i + 1
      BY <2>1
    <3> QED
      BY <3>1, <3>2 DEF AheadOf
  <2>4. Cardinality(AheadOf(q, p, i + 1)) =
            IF 1 \in AheadOf(q, p, i + 1) THEN Cardinality(AheadOf(t, p, i)) + 1
            ELSE Cardinality(AheadOf(t, p, i))
    BY <2>2, <2>3, Shift
  <2>5. 1 \in AheadOf(q, p, i + 1) <=> 1 \in Changes(q, p)
    BY <2>1 DEF AheadOf
  <2> QED
    BY <2>1, <2>4, <2>5
<1> QED
  BY <1>2, <1>5, <1>6 DEF t

LEMMA ReadShows ==
    ASSUME NEW q, NEW st \in [Devices -> Nat], Sound(q, st), q # <<>>,
           NEW r \in DeviceObject, Shows(r, q),
           NEW r2, r2 = IF Head(q).signal = "PropertiesChanged"
                        THEN Heard(r, Head(q).path, Head(q).value) ELSE r
    PROVE  r2 \in DeviceObject /\ Shows(r2, Tail(q))
<1> DEFINE t == Tail(q)
           p == r.path
           m == Head(q)
<1>1. /\ q \in Seq(Messages) /\ t \in Seq(Messages) /\ Len(q) \in Nat \ {0}
      /\ Len(t) = Len(q) - 1 /\ m = q[1] /\ m \in Messages
      /\ \A i \in 1..Len(t) : t[i] = q[i + 1] /\ i + 1 \in 1..Len(q)
  BY Rest DEF Sound
<1>2. /\ 1 \in Changes(q, p) <=> m.signal = "PropertiesChanged" /\ m.path = p
      /\ Cardinality(Changes(q, p)) = IF 1 \in Changes(q, p)
                                      THEN Cardinality(Changes(t, p)) + 1
                                      ELSE Cardinality(Changes(t, p))
      /\ \A i \in Changes(t, p) :
           /\ i + 1 \in Changes(q, p) /\ t[i] = q[i + 1]
           /\ Cardinality(AheadOf(q, p, i + 1)) =
                IF 1 \in Changes(q, p) THEN Cardinality(AheadOf(t, p, i)) + 1
                ELSE Cardinality(AheadOf(t, p, i))
  BY <1>1, Shifted
<1>3. /\ Cardinality(Changes(t, p)) \in Nat
      /\ \A i \in Changes(t, p) : i \in 1..Len(t) /\ Cardinality(AheadOf(t, p, i)) \in Nat
  <2>1. Changes(t, p) \subseteq 1..Len(t) /\ 1..Len(t) \subseteq Nat
    BY <1>1 DEF Changes
  <2>2. /\ Cardinality(Changes(t, p)) \in Nat
        /\ \A i \in Nat : Cardinality(AheadOf(t, p, i)) \in Nat
    <3> HIDE DEF t
    <3> QED
      BY <1>1, Counts
  <2> QED
    BY <2>1, <2>2
<1>4. p \in Devices /\ r.skip \in Nat /\ r.state \in Nat \cup {Unknown}
  BY DEF DeviceObject
\* A DeviceChanged that comes next is the one of the message that is read.
<1>5. t # <<>> /\ t[1].signal = "DeviceChanged" /\ t[1].path = p =>
        /\ m.signal = "PropertiesChanged" /\ m.path = p /\ m.value = t[1].value
  <2> SUFFICES ASSUME t # <<>>, t[1].signal = "DeviceChanged", t[1].path = p
               PROVE  m.signal = "PropertiesChanged" /\ m.path = p /\ m.value = t[1].value
    OBVIOUS
  <2>1. Len(t) \in Nat \ {0}
    BY <1>1, EmptySeq
  <2>2. t[1] = q[2] /\ 2 \in 1..Len(q)
    BY <1>1, <2>1
  <2>3. q[1] = Message("PropertiesChanged", q[2].path, q[2].value)
    <3>1. \A i \in 1..Len(q) : q[i].signal = "DeviceChanged" /\ i # 1 =>
              q[i - 1] = Message("PropertiesChanged", q[i].path, q[i].value)
      BY DEF Sound
    <3> HIDE DEF t
    <3> QED
      BY <2>2, <3>1
  <2> QED
    BY <1>1, <2>2, <2>3 DEF Message
<1>6. m.path \in Devices => m.value \in Nat
  BY <1>1 DEF Sound
<1>7. \A i \in Changes(q, p) : r.state # Unknown /\ Cardinality(AheadOf(q, p, i)) < r.skip
                               => q[i].value <= r.state
  BY DEF Shows
<1>8. r.skip <= Cardinality(Changes(q, p))
  BY DEF Shows
<1>9. 1 \in Changes(q, p) => Cardinality(AheadOf(q, p, 1)) = 0
  <2>1. AheadOf(q, p, 1) = {}
    BY DEF AheadOf, Changes
  <2> QED
    BY <2>1, FS_EmptySet
<1> HIDE DEF t, m, p
<1>10. CASE m.signal = "PropertiesChanged" /\ m.path = p
  <2>1. 1 \in Changes(q, p) /\ Cardinality(Changes(q, p)) = Cardinality(Changes(t, p)) + 1
        /\ m.value \in Nat
    BY <1>2, <1>4, <1>6, <1>10
  <2>2. r2 = Heard(r, p, m.value)
    BY <1>10 DEF m, p
  <2>3. CASE r.skip > 0
    <3>1. r2 = [r EXCEPT !.skip = r.skip - 1]
      BY <2>2, <2>3 DEF Heard, p
    <3>2. r2 \in DeviceObject /\ r2.path = p /\ r2.skip = r.skip - 1 /\ r2.state = r.state
      BY <1>4, <2>3, <3>1 DEF DeviceObject, p
    <3>3. r2.skip <= Cardinality(Changes(t, p))
      BY <1>3, <1>4, <1>8, <2>1, <3>2
    <3>4. ASSUME r2.state # Unknown, NEW i \in Changes(t, p),
                 Cardinality(AheadOf(t, p, i)) < r2.skip
          PROVE  t[i].value <= r2.state
      <4>1. Cardinality(AheadOf(q, p, i + 1)) < r.skip
        BY <1>2, <1>3, <1>4, <2>1, <3>2, <3>4
      <4> QED
        BY <1>2, <1>7, <3>2, <3>4, <4>1
    <3>5. r.state # Unknown => m.value <= r.state
      BY <1>1, <1>7, <1>9, <2>1, <2>3, <1>4
    <3> QED
      BY <1>5, <3>2, <3>3, <3>4, <3>5 DEF Shows, t
  <2>4. CASE r.skip = 0
    <3>1. r2 = IF r.state = Unknown THEN r ELSE [r EXCEPT !.state = m.value]
      BY <2>2, <2>4 DEF Heard, p
    <3>2. /\ r2 \in DeviceObject /\ r2.path = p /\ r2.skip = 0
          /\ r2.state # Unknown => r2.state = m.value
      BY <1>4, <2>1, <2>4, <3>1 DEF DeviceObject, p
    <3>3. \A i \in Changes(t, p) : ~ (Cardinality(AheadOf(t, p, i)) < r2.skip)
      BY <1>3, <3>2
    <3> QED
      BY <1>3, <1>5, <2>1, <3>2, <3>3 DEF Shows, t
  <2> QED
    BY <1>4, <2>3, <2>4
<1>11. CASE ~ (m.signal = "PropertiesChanged" /\ m.path = p)
  <2>1. r2 = r
    BY <1>11 DEF Heard, m, p
  <2>2. 1 \notin Changes(q, p)
    BY <1>2, <1>11
  <2>3. r.skip <= Cardinality(Changes(t, p))
    BY <1>2, <1>8, <2>2
  <2>4. ASSUME r.state # Unknown, NEW i \in Changes(t, p),
               Cardinality(AheadOf(t, p, i)) < r.skip
        PROVE  t[i].value <= r.state
    BY <1>2, <1>7, <2>2, <2>4
  <2> QED
    BY <1>5, <1>11, <2>1, <2>3, <2>4 DEF Shows, t, p
<1> QED
  BY <1>10, <1>11

-----------------------------------------------------------------------------
(* The daemon sends.                                                       *)

AllShow(q) == list \in Seq(DeviceObject) /\ \A i \in 1..Len(list) : Shows(list[i], q)

LEMMA Sends ==
    ASSUME NEW q, NEW st \in [Devices -> Nat], NEW st2 \in [Devices -> Nat],
           Sound(q, st), AllShow(q), \A d \in Devices : st[d] <= st2[d],
           NEW m \in Messages, m.signal # "NameOwnerChanged",
           m.signal # "PropertiesChanged" => m.path \in Devices,
           m.path \in Devices => m.value \in Nat /\ m.value <= st2[m.path],
           m.signal = "DeviceChanged" =>
               q # <<>> /\ q[Len(q)] = Message("PropertiesChanged", m.path, m.value)
    PROVE  /\ q \o <<m>> = Append(q, m)
           /\ Sound(Append(q, m), st2) /\ AllShow(Append(q, m))
<1>1. q \in Seq(Messages)
  BY DEF Sound
<1>2. \A i \in 1..Len(list) : list[i] \in DeviceObject
  BY ElementOfSeq DEF AllShow
<1>3. AllShow(Append(q, m))
  BY <1>1, <1>2, SentShows DEF AllShow
<1>4. q \o <<m>> = Append(q, m)
  BY <1>1, AppendIsConcat
<1> QED
  BY <1>3, <1>4, SentIsSound

LEMMA StateIsInt == \A devs, st : StateOf(devs, st) \in Int
<1> SUFFICES ASSUME NEW devs, NEW st PROVE StateOf(devs, st) \in Int
  OBVIOUS
<1> DEFINE S == {event_to_state(st[d] % 2 = 1, FALSE) : d \in Range(devs)} \cup {NO_ADAPTER}
<1>1. S \subseteq {-1, 0, 1} /\ -1 \in S
  BY DEF event_to_state, NO_ADAPTER, SOFT_BLOCKED, UNBLOCKED
<1> HIDE DEF S
<1>2. \E x \in S : \A y \in S : x >= y
  BY <1>1
<1>3. Max(S) \in S
  BY <1>2 DEF Max
<1>4. StateOf(devs, st) = Max(S)
  BY DEF StateOf, KillswitchStateOf, MostBlocked, S
<1>5. S \subseteq Int
  BY <1>1
<1> QED
  BY <1>3, <1>4, <1>5

LEMMA Announces ==
    ASSUME NEW q, NEW st \in [Devices -> Nat], NEW st2 \in [Devices -> Nat],
           Sound(q, st), AllShow(q), \A d \in Devices : st[d] <= st2[d],
           NEW devs, NEW old
    PROVE  /\ Refreshed(devs, st2, old) \in Seq(Messages)
           /\ Sound(q \o Refreshed(devs, st2, old), st2)
           /\ AllShow(q \o Refreshed(devs, st2, old))
<1> DEFINE m == Message("PropertiesChanged", SWITCH, StateOf(devs, st2))
<1>1. SWITCH \notin Devices
  BY ClientAssumption DEF SWITCH
<1>2. /\ m \in Messages /\ m.signal = "PropertiesChanged" /\ m.path = SWITCH
  BY StateIsInt DEF Message, Messages, Signals, Paths
<1> HIDE DEF m
<1>3. CASE Refreshed(devs, st2, old) = <<>>
  <2>1. Sound(q, st2)
    <3>1. ASSUME NEW v \in Nat, NEW d \in Devices, v <= st[d] PROVE v <= st2[d]
      BY <3>1
    <3> QED
      BY <3>1 DEF Sound
  <2>2. q \o <<>> = q
    BY ConcatEmptySeq DEF Sound
  <2> QED
    BY <1>3, <2>1, <2>2
<1>4. CASE Refreshed(devs, st2, old) = <<m>>
  <2>1. q \o <<m>> = Append(q, m) /\ Sound(Append(q, m), st2) /\ AllShow(Append(q, m))
    BY <1>1, <1>2, Sends
  <2>2. <<m>> \in Seq(Messages)
    BY <1>2
  <2> QED
    BY <1>4, <2>1, <2>2
<1> QED
  BY <1>3, <1>4 DEF Refreshed, m

LEMMA Tells ==
    ASSUME NEW d \in Devices, NEW v \in Nat, NEW signal \in Signals
    PROVE  LET m == Message(signal, d, v) IN
           m \in Messages /\ m.signal = signal /\ m.path = d /\ m.value = v
  BY ClientAssumption DEF Message, Messages, Paths

LEMMA ChangeKeeps == ASSUME Calm, Change PROVE Calm'
<1>1. /\ state \in [Devices -> Nat] /\ devices \in Seq(Devices)
      /\ Sound(queue, state) /\ AllShow(queue) /\ queue \in Seq(Messages)
  BY DEF Calm, AllShow, Sound
<1>2. UNCHANGED <<asked, list, todo>>
  BY DEF Change, clientVars
<1>3. ASSUME NEW st2 \in [Devices -> Nat], state' = st2, devices' \in Seq(Devices),
             Sound(queue', st2), AllShow(queue')
      PROVE  Calm'
  BY <1>2, <1>3 DEF Calm, AllShow
<1>4. PICK d \in Devices : Plug(d) \/ device_changed_cb(d) \/ device_removed_cb(d)
  BY DEF Change
<1>5. CASE Plug(d)
  <2>1. PICK v \in {1, 2} :
             /\ state' = [state EXCEPT ![d] = v]
             /\ queue' = queue \o device_added_cb(d, devices, state', switch)
    BY <1>5 DEF Plug
  <2> DEFINE st2 == [state EXCEPT ![d] = v]
             r == Refreshed(Append(devices, d), st2, switch)
             m == Message("DeviceAdded", d, st2[d])
  <2>2. /\ st2 \in [Devices -> Nat] /\ state' = st2 /\ st2[d] \in Nat
        /\ \A e \in Devices : state[e] <= st2[e]
    BY <1>1, <1>5, <2>1 DEF Plug
  <2>3. queue' = queue \o (r \o <<m>>)
    BY <2>1 DEF device_added_cb
  <2> HIDE DEF st2
  <2>4. r \in Seq(Messages) /\ Sound(queue \o r, st2) /\ AllShow(queue \o r)
    BY <1>1, <2>2, Announces
  <2>5. m \in Messages /\ m.signal = "DeviceAdded" /\ m.path = d /\ m.value = st2[d]
    BY <2>2, Tells DEF Signals
  <2> HIDE DEF r, m
  <2>6. /\ (queue \o r) \o <<m>> = Append(queue \o r, m)
        /\ Sound(Append(queue \o r, m), st2) /\ AllShow(Append(queue \o r, m))
    <3>1. \A e \in Devices : st2[e] <= st2[e]
      BY <2>2
    <3>2. st2[d] <= st2[d]
      BY <2>2
    <3> QED
      BY <2>2, <2>4, <2>5, <3>1, <3>2, Sends
  <2>7. queue \o (r \o <<m>>) = (queue \o r) \o <<m>>
    BY <1>1, <2>4, <2>5, ConcatAssociative
  <2>8. devices' \in Seq(Devices)
    BY <1>1, <1>5, AppendProperties DEF Plug
  <2> QED
    BY <1>3, <2>2, <2>3, <2>6, <2>7, <2>8
<1>6. CASE device_changed_cb(d)
  <2> DEFINE st2 == [state EXCEPT ![d] = @ + 1]
             r == Refreshed(devices, st2, switch)
             a == Message("PropertiesChanged", d, st2[d])
             b == Message("DeviceChanged", d, st2[d])
             q == queue \o r
  <2>1. /\ st2 \in [Devices -> Nat] /\ state' = st2 /\ st2[d] \in Nat
        /\ \A e \in Devices : state[e] <= st2[e] /\ st2[e] <= st2[e]
    BY <1>1, <1>6 DEF device_changed_cb
  <2>2. queue' = q \o <<a, b>> /\ UNCHANGED devices
    BY <1>6 DEF device_changed_cb
  <2> HIDE DEF st2
  <2>3. Sound(q, st2) /\ AllShow(q)
    BY <1>1, <2>1, Announces
  <2> HIDE DEF q, r
  <2>4. /\ a \in Messages /\ a.signal = "PropertiesChanged" /\ a.path = d /\ a.value = st2[d]
        /\ b \in Messages /\ b.signal = "DeviceChanged" /\ b.path = d /\ b.value = st2[d]
    BY <2>1, Tells DEF Signals
  <2>5. a = Message("PropertiesChanged", b.path, b.value)
    BY <2>4
  <2> HIDE DEF a, b
  <2>6. Sound(Append(q, a), st2) /\ AllShow(Append(q, a))
    BY <2>1, <2>3, <2>4, Sends
  <2>7. q \in Seq(Messages)
    BY <2>3 DEF Sound
  <2>8. Append(q, a) # <<>> /\ Append(q, a)[Len(Append(q, a))] = a
    BY <2>4, <2>7, AppendProperties
  <2>9. Sound(Append(Append(q, a), b), st2) /\ AllShow(Append(Append(q, a), b))
    BY <2>1, <2>4, <2>5, <2>6, <2>8, Sends
  <2>10. q \o <<a, b>> = Append(Append(q, a), b)
    <3>1. <<a, b>> = Append(<<a>>, b) /\ <<a>> \in Seq(Messages)
      BY <2>4
    <3>2. q \o Append(<<a>>, b) = Append(q \o <<a>>, b)
      <4>1. Append(<<a>>, b) = <<a>> \o <<b>> /\ <<b>> \in Seq(Messages)
        BY <2>4, <3>1, AppendIsConcat
      <4>2. q \o (<<a>> \o <<b>>) = (q \o <<a>>) \o <<b>>
        BY <2>7, <3>1, <4>1, ConcatAssociative
      <4>3. (q \o <<a>>) \in Seq(Messages)
        BY <2>7, <3>1, ConcatProperties
      <4> QED
        BY <2>4, <4>1, <4>2, <4>3, AppendIsConcat
    <3>3. q \o <<a>> = Append(q, a)
      BY <2>4, <2>7, AppendIsConcat
    <3> QED
      BY <3>1, <3>2, <3>3
  <2> QED
    BY <1>1, <1>3, <2>1, <2>2, <2>9, <2>10
<1>7. CASE device_removed_cb(d)
  <2> DEFINE r == Refreshed(devices', state, switch)
             m == Message("DeviceRemoved", d, state[d])
             q == queue \o r
  <2>1. queue' = q \o <<m>> /\ UNCHANGED state /\ devices' = RemoveFirst(devices, d)
    BY <1>7 DEF device_removed_cb
  <2>2. \A e \in Devices : state[e] <= state[e] /\ state[e] \in Nat
    BY <1>1
  <2>3. Sound(q, state) /\ AllShow(q)
    BY <1>1, <2>2, Announces
  <2>4. m \in Messages /\ m.signal = "DeviceRemoved" /\ m.path = d /\ m.value = state[d]
    BY <2>2, Tells DEF Signals
  <2> HIDE DEF q, r, m
  <2>5. q \o <<m>> = Append(q, m) /\ Sound(Append(q, m), state) /\ AllShow(Append(q, m))
    BY <1>1, <2>2, <2>3, <2>4, Sends
  <2>6. devices' \in Seq(Devices)
    BY <1>1, <2>1, RemoveFirstKeeps
  <2> QED
    BY <1>1, <1>3, <2>1, <2>5, <2>6
<1> QED
  BY <1>4, <1>5, <1>6, <1>7

-----------------------------------------------------------------------------
(* The client.                                                             *)

\* An object that is made now shows all that was sent.
LEMMA NewShows ==
    ASSUME Calm, NEW path \in Devices, NEW skip \in 0..Waiting(path)
    PROVE  /\ set_object_path_sync(path, skip) \in DeviceObject
           /\ Shows(set_object_path_sync(path, skip), queue)
<1> DEFINE r == set_object_path_sync(path, skip)
<1>1. /\ queue \in Seq(Messages) /\ Len(queue) \in Nat /\ DOMAIN queue = 1..Len(queue)
      /\ state[path] \in Nat
  BY LenProperties DEF Calm, Sound
<1>2. Waiting(path) = Cardinality(Changes(queue, path))
  BY <1>1 DEF Waiting, Changes
<1>3. Cardinality(Changes(queue, path)) \in Nat
  BY <1>1, Counts
<1>4. /\ r.path = path /\ r.skip = skip /\ r \in DeviceObject
      /\ r.state # Unknown => r.state = state[path]
  BY <1>1, <1>2, <1>3 DEF set_object_path_sync, DeviceObject
<1>5. \A i \in 1..Len(queue) : queue[i].path = path => queue[i].value <= state[path]
  BY DEF Calm, Sound
<1>6. queue # <<>> => 1 \in 1..Len(queue)
  BY <1>1, EmptySeq
<1> HIDE DEF r
<1> QED
  BY <1>2, <1>3, <1>4, <1>5, <1>6 DEF Shows, Changes, r

LEMMA AddKeeps ==
    ASSUME Calm, NEW path \in Devices, add(path)
    PROVE  /\ list' \in Seq(DeviceObject)
           /\ \A i \in 1..Len(list') : Shows(list'[i], queue)
<1>1. PICK skip \in 0..Waiting(path) :
          list' = Append(list, set_object_path_sync(path, skip))
  BY DEF add
<1> DEFINE r == set_object_path_sync(path, skip)
<1>2. r \in DeviceObject /\ Shows(r, queue)
  BY NewShows
<1>3. list \in Seq(DeviceObject) /\ Len(list) \in Nat
  BY LenProperties DEF Calm
<1> HIDE DEF r
<1>4. /\ Append(list, r) \in Seq(DeviceObject) /\ Len(Append(list, r)) = Len(list) + 1
      /\ \A i \in 1..Len(list) : Append(list, r)[i] = list[i]
      /\ Append(list, r)[Len(list) + 1] = r
  BY <1>2, <1>3, AppendProperties
<1>5. list' = Append(list, r)
  BY <1>1 DEF r
<1>6. ASSUME NEW i \in 1..Len(list') PROVE Shows(list'[i], queue)
  <2>1. i \in 1..Len(list) \/ i = Len(list) + 1
    BY <1>3, <1>4, <1>5
  <2> QED
    BY <1>2, <1>4, <1>5, <2>1 DEF Calm
<1> QED
  BY <1>4, <1>5, <1>6

LEMMA DispatchKeeps == ASSUME Calm, Dispatch PROVE Calm'
<1> DEFINE m == Head(queue)
<1>1. /\ state \in [Devices -> Nat] /\ Sound(queue, state) /\ queue \in Seq(Messages)
      /\ list \in Seq(DeviceObject) /\ Len(list) \in Nat /\ DOMAIN list = 1..Len(list)
      /\ \A i \in 1..Len(list) : list[i] \in DeviceObject /\ Shows(list[i], queue)
  BY LenProperties, ElementOfSeq DEF Calm, Sound
<1>2. queue # <<>> /\ queue' = Tail(queue) /\ UNCHANGED <<devices, state, todo>>
  BY DEF Dispatch, daemonVars
<1>3. Sound(Tail(queue), state)
  BY <1>1, <1>2, ReadIsSound
<1>4. /\ m.signal # "NameOwnerChanged"
      /\ m.signal # "PropertiesChanged" => m.path \in Devices
  <2>1. m = queue[1] /\ 1 \in 1..Len(queue)
    BY <1>1, <1>2, Rest
  <2> QED
    BY <1>1, <2>1 DEF Sound
<1>5. ASSUME NEW r \in DeviceObject, Shows(r, queue)
      PROVE  /\ m.signal # "PropertiesChanged" => Shows(r, Tail(queue))
             /\ m.signal = "PropertiesChanged" =>
                  /\ Heard(r, m.path, m.value) \in DeviceObject
                  /\ Shows(Heard(r, m.path, m.value), Tail(queue))
  BY <1>1, <1>2, <1>5, ReadShows
<1>6. ASSUME UNCHANGED asked, list' \in Seq(DeviceObject),
             \A i \in 1..Len(list') : Shows(list'[i], Tail(queue))
      PROVE  Calm'
  BY <1>2, <1>3, <1>6 DEF Calm
<1>7. ASSUME UNCHANGED asked, list' \in Seq(DeviceObject), m.signal # "PropertiesChanged",
             \A i \in 1..Len(list') : Shows(list'[i], queue)
      PROVE  Calm'
  <2>1. \A i \in 1..Len(list') : list'[i] \in DeviceObject
    BY <1>7, ElementOfSeq
  <2> QED
    BY <1>5, <1>6, <1>7, <2>1
<1>8. CASE m.signal = "PropertiesChanged" /\ changed_cb(m.path, m.value) /\ UNCHANGED asked
  <2>1. list' = [i \in DOMAIN list |-> Heard(list[i], m.path, m.value)]
    BY <1>8 DEF changed_cb, Heard
  <2>2. \A i \in 1..Len(list) : /\ Heard(list[i], m.path, m.value) \in DeviceObject
                                /\ Shows(Heard(list[i], m.path, m.value), Tail(queue))
    BY <1>1, <1>5, <1>8
  <2>3. /\ list' \in [1..Len(list) -> DeviceObject]
        /\ \A i \in 1..Len(list) : Shows(list'[i], Tail(queue))
    BY <1>1, <2>1, <2>2
  <2>4. list' \in Seq(DeviceObject) /\ Len(list') = Len(list)
    BY <1>1, <2>3, SeqDef, LenProperties
  <2> QED
    BY <1>6, <1>8, <2>3, <2>4
<1>9. CASE proxy_signal_cb(m) /\ UNCHANGED asked
  <2>1. m.signal # "PropertiesChanged" /\ m.path \in Devices
    BY <1>4, <1>9 DEF proxy_signal_cb
  <2>2. CASE UNCHANGED list
    BY <1>1, <1>7, <1>9, <2>1, <2>2
  <2>3. CASE add(m.path)
    BY <1>7, <1>9, <2>1, <2>3, AddKeeps
  <2>4. CASE device_removed(m.path)
    <3>1. /\ list' \in Seq(DeviceObject)
          /\ \A j \in 1..Len(list') : \E k \in 1..Len(list) : list'[j] = list[k]
      BY <1>1, <2>4, RemovedFromList
    <3>2. \A j \in 1..Len(list') : Shows(list'[j], queue)
      BY <1>1, <3>1
    <3> QED
      BY <1>7, <1>9, <2>1, <3>1, <3>2
  <2> QED
    BY <1>9, <2>2, <2>3, <2>4 DEF proxy_signal_cb, device_added
<1> QED
  BY <1>4, <1>8, <1>9 DEF Dispatch

-----------------------------------------------------------------------------
(* The result.                                                             *)

LEMMA Begins == ASSUME Init PROVE CInv
<1>1. PICK present \in SUBSET Devices :
          /\ devices = SetToSeq(present)
          /\ state = [d \in Devices |-> IF d \in present THEN 2 ELSE 0]
  BY DEF Init
<1>2. SetToSeq(present) \in Seq(Devices)
  <2> DEFINE n == Cardinality(present)
  <2>1. IsFiniteSet(present)
    BY ClientAssumption, FS_Subset
  <2>2. n \in Nat /\ ExistsBijection(1..n, present)
    BY <2>1, FS_CardinalityType
  <2> HIDE DEF n
  <2>3. \E f \in [1..n -> present] : IsInjective(f)
    <3>1. PICK f \in Bijection(1..n, present) : TRUE
      BY <2>2 DEF ExistsBijection
    <3> QED
      BY <3>1 DEF Bijection, Injection, IsInjective
  <2>4. SetToSeq(present) \in [1..n -> present]
    BY <2>3 DEF SetToSeq, n
  <2>5. SetToSeq(present) \in Seq(present)
    BY <2>2, <2>4, SeqDef
  <2> QED
    BY <2>5, SeqMonotonic
<1>3. /\ queue = <<>> /\ asked = {} /\ list = <<>> /\ todo = <<>> /\ restarts = 0
  BY DEF Init
<1>4. state \in [Devices -> Nat]
  BY <1>1
<1>5. Sound(queue, state)
  BY <1>3, EmptySeq DEF Sound
<1> QED
  BY <1>1, <1>2, <1>3, <1>4, <1>5, EmptySeq DEF CInv, Calm

LEMMA NextKeeps == ASSUME CInv, [Next]_vars PROVE CInv'
<1>1. ASSUME UNCHANGED restarts, restarts = 0 => Calm' PROVE CInv'
  BY <1>1 DEF CInv
<1>2. CASE Restart
  BY <1>2 DEF Restart, CInv
<1>3. CASE Change
  <2>1. UNCHANGED restarts
    BY <1>3 DEF Change
  <2> QED
    BY <1>1, <1>3, <2>1, ChangeKeeps DEF CInv
<1>4. CASE GetAll
  <2>1. UNCHANGED restarts /\ asked # {}
    BY <1>4 DEF GetAll, history
  <2> QED
    BY <1>1, <2>1 DEF CInv, Calm
<1>5. CASE enumerate_devices_sync
  BY <1>5 DEF enumerate_devices_sync, daemonVars, CInv, Calm
<1>6. CASE get_devices_private
  <2>1. UNCHANGED <<restarts, devices, state, queue, asked>> /\ todo # <<>>
    BY <1>6 DEF get_devices_private, daemonVars, history
  <2>2. ASSUME Calm PROVE Calm'
    <3>1. /\ Head(todo) \in Devices /\ Tail(todo) \in Seq(Devices)
      BY <2>1, <2>2, HeadTailProperties DEF Calm
    <3>2. /\ list' \in Seq(DeviceObject)
          /\ \A i \in 1..Len(list') : Shows(list'[i], queue)
      BY <1>6, <2>2, <3>1, AddKeeps DEF get_devices_private
    <3> QED
      BY <1>6, <2>1, <2>2, <3>1, <3>2 DEF get_devices_private, Calm
  <2> QED
    BY <1>1, <2>1, <2>2 DEF CInv
<1>7. CASE urf_killswitch_new
  BY <1>7 DEF urf_killswitch_new, daemonVars, history, CInv, Calm
<1>8. CASE Dispatch
  <2>1. UNCHANGED restarts
    BY <1>8 DEF Dispatch, history
  <2> QED
    BY <1>1, <1>8, <2>1, DispatchKeeps DEF CInv
<1>9. CASE UNCHANGED vars
  BY <1>9 DEF vars, daemonVars, clientVars, history, CInv, Calm
<1> QED
  BY <1>2, <1>3, <1>4, <1>5, <1>6, <1>7, <1>8, <1>9 DEF Next

\* Whatever calls overtake the signals, when the program is told that a device changed
\* its object shows that change or a later one.
THEOREM ChangeIsShown == Spec => []ChangedShows
<1>1. Init => CInv
  BY Begins
<1>2. CInv /\ [Next]_vars => CInv'
  BY NextKeeps
<1>3. CInv => ChangedShows
  <2> SUFFICES ASSUME CInv, queue # <<>>, Head(queue).signal = "DeviceChanged", restarts = 0,
                      NEW i \in DOMAIN list, list[i].path = Head(queue).path,
                      list[i].state # Unknown
               PROVE  list[i].state >= Head(queue).value
    BY DEF ChangedShows
  <2>1. /\ queue \in Seq(Messages) /\ Sound(queue, state) /\ list \in Seq(DeviceObject)
        /\ \A j \in 1..Len(list) : Shows(list[j], queue)
    BY DEF CInv, Calm, Sound
  <2>2. i \in 1..Len(list) /\ list[i] \in DeviceObject
    BY <2>1, LenProperties, ElementOfSeq
  <2>3. Head(queue) = queue[1] /\ 1 \in 1..Len(queue)
    BY <2>1, Rest
  <2>4. queue[1].value <= list[i].state
    BY <2>1, <2>2, <2>3 DEF Shows
  <2>5. queue[1].value \in Nat /\ list[i].state \in Nat
    BY <2>1, <2>2, <2>3 DEF Sound, DeviceObject
  <2> QED
    BY <2>3, <2>4, <2>5
<1> QED
  BY <1>1, <1>2, <1>3, PTL DEF Spec
=============================================================================
