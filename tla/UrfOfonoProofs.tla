---------------------------- MODULE UrfOfonoProofs ----------------------------
(***************************************************************************)
(* Proofs about UrfOfono, for any modems, any names of objects and any     *)
(* number of inputs that OfonoAssumption allows: that the objects are      *)
(* those somebody holds, and that the manager has oFono's modems and the   *)
(* arbitrator the powered ones once every message is handled.              *)
(***************************************************************************)
EXTENDS UrfOfono, FiniteSetTheorems, FunctionTheorems, SequenceTheorems, TLAPS

-----------------------------------------------------------------------------
(* What waits.  A queue has a message of a set G; each message of B in it  *)
(* has one of G behind it; it has at most one message of B.                *)

Has(q, G) == \E i \in 1..Len(q) : q[i] \in G
Covered(q, B, G) ==
    \A i \in 1..Len(q) : q[i] \in B => \E j \in 1..Len(q) : j > i /\ q[j] \in G
Single(q, B) == \A i, j \in 1..Len(q) : q[i] \in B /\ q[j] \in B => i = j

\* r is q and then ms: what is sent goes behind what waits.
Joins(r, q, ms) ==
    /\ Len(r) = Len(q) + Len(ms) /\ Len(q) \in Nat /\ Len(ms) \in Nat
    /\ \A i \in 1..Len(q) : i \in 1..Len(r) /\ r[i] = q[i]
    /\ \A j \in 1..Len(ms) : Len(q) + j \in 1..Len(r) /\ r[Len(q) + j] = ms[j]
    /\ \A i \in 1..Len(r) : i \in 1..Len(q) \/ \E j \in 1..Len(ms) : i = Len(q) + j

LEMMA Joined ==
    ASSUME NEW S, NEW q \in Seq(S), NEW ms \in Seq(S)
    PROVE  q \o ms \in Seq(S) /\ Joins(q \o ms, q, ms)
<1> DEFINE r == q \o ms
<1>1. /\ r \in Seq(S) /\ Len(r) = Len(q) + Len(ms) /\ Len(q) \in Nat /\ Len(ms) \in Nat
      /\ \A i \in 1..(Len(q) + Len(ms)) :
           r[i] = IF i <= Len(q) THEN q[i] ELSE ms[i - Len(q)]
  BY ConcatProperties, LenProperties
<1> HIDE DEF r
<1>2. \A i \in 1..Len(q) : i \in 1..Len(r) /\ r[i] = q[i]
  BY <1>1
<1>3. ASSUME NEW j \in 1..Len(ms) PROVE Len(q) + j \in 1..Len(r) /\ r[Len(q) + j] = ms[j]
  <2>1. /\ Len(q) + j \in 1..(Len(q) + Len(ms)) /\ ~ (Len(q) + j <= Len(q))
        /\ (Len(q) + j) - Len(q) = j
    BY <1>1
  <2>2. r[Len(q) + j] = ms[(Len(q) + j) - Len(q)]
    BY <1>1, <2>1
  <2> QED
    BY <1>1, <2>1, <2>2
<1>4. ASSUME NEW i \in 1..Len(r), i \notin 1..Len(q)
      PROVE  \E j \in 1..Len(ms) : i = Len(q) + j
  <2>1. i - Len(q) \in 1..Len(ms) /\ i = Len(q) + (i - Len(q))
    BY <1>1, <1>4
  <2> QED
    BY <2>1
<1> QED
  BY <1>1, <1>2, <1>3, <1>4 DEF Joins, r

\* What is sent is behind all that waits.
LEMMA Sent ==
    ASSUME NEW S, NEW q \in Seq(S), NEW ms \in Seq(S)
    PROVE  /\ q \o ms \in Seq(S)
           /\ \A G : Has(q \o ms, G) <=> Has(q, G) \/ Has(ms, G)
           /\ \A B, G : Covered(q \o ms, B, G)
                        <=> Covered(ms, B, G) /\ (Covered(q, B, G) \/ Has(ms, G))
           /\ \A B : Single(q \o ms, B)
                     <=> Single(q, B) /\ Single(ms, B) /\ ~ (Has(q, B) /\ Has(ms, B))
<1> DEFINE r == q \o ms
<1>1. r \in Seq(S) /\ Joins(r, q, ms)
  BY Joined
<1> HIDE DEF r
<1>2. ASSUME NEW G PROVE Has(r, G) <=> Has(q, G) \/ Has(ms, G)
  <2>1. Has(q, G) \/ Has(ms, G) => Has(r, G)
    BY <1>1 DEF Has, Joins
  <2>2. ASSUME Has(r, G) PROVE Has(q, G) \/ Has(ms, G)
    <3>1. PICK i \in 1..Len(r) : r[i] \in G
      BY <2>2 DEF Has
    <3>2. CASE i \in 1..Len(q)
      BY <1>1, <3>1, <3>2 DEF Has, Joins
    <3>3. CASE \E j \in 1..Len(ms) : i = Len(q) + j
      BY <1>1, <3>1, <3>3 DEF Has, Joins
    <3> QED
      BY <1>1, <3>2, <3>3 DEF Joins
  <2> QED
    BY <2>1, <2>2
<1>3. ASSUME NEW B, NEW G, Covered(r, B, G)
      PROVE  Covered(ms, B, G) /\ (Covered(q, B, G) \/ Has(ms, G))
  <2>1. ASSUME NEW i \in 1..Len(ms), ms[i] \in B
        PROVE  \E j \in 1..Len(ms) : j > i /\ ms[j] \in G
    <3>1. Len(q) + i \in 1..Len(r) /\ r[Len(q) + i] = ms[i]
      BY <1>1 DEF Joins
    <3>2. PICK k \in 1..Len(r) : k > Len(q) + i /\ r[k] \in G
      BY <1>3, <2>1, <3>1 DEF Covered
    <3>3. Len(q) \in Nat /\ k \notin 1..Len(q)
      BY <1>1, <3>2 DEF Joins
    <3>4. PICK j \in 1..Len(ms) : k = Len(q) + j
      BY <1>1, <3>3 DEF Joins
    <3>5. r[k] = ms[j]
      BY <1>1, <3>4 DEF Joins
    <3> QED
      BY <3>2, <3>3, <3>4, <3>5
  <2>2. ASSUME NEW i \in 1..Len(q), q[i] \in B, ~ Has(ms, G)
        PROVE  \E j \in 1..Len(q) : j > i /\ q[j] \in G
    <3>1. i \in 1..Len(r) /\ r[i] = q[i]
      BY <1>1 DEF Joins
    <3>2. PICK k \in 1..Len(r) : k > i /\ r[k] \in G
      BY <1>3, <2>2, <3>1 DEF Covered
    <3>3. ~ \E j \in 1..Len(ms) : k = Len(q) + j
      BY <1>1, <2>2, <3>2 DEF Joins, Has
    <3>4. k \in 1..Len(q) /\ r[k] = q[k]
      BY <1>1, <3>3 DEF Joins
    <3> QED
      BY <3>2, <3>4
  <2> QED
    BY <2>1, <2>2 DEF Covered
<1>4. ASSUME NEW B, NEW G, Covered(ms, B, G), Covered(q, B, G) \/ Has(ms, G)
      PROVE  Covered(r, B, G)
  <2> SUFFICES ASSUME NEW i \in 1..Len(r), r[i] \in B
               PROVE  \E j \in 1..Len(r) : j > i /\ r[j] \in G
    BY DEF Covered
  <2>1. CASE i \in 1..Len(q)
    <3>1. CASE Covered(q, B, G)
      BY <1>1, <2>1, <3>1 DEF Covered, Joins
    <3>2. CASE Has(ms, G)
      <4>1. PICK j \in 1..Len(ms) : ms[j] \in G
        BY <3>2 DEF Has
      <4>2. Len(q) + j \in 1..Len(r) /\ r[Len(q) + j] = ms[j] /\ Len(q) + j > i
        BY <1>1, <2>1 DEF Joins
      <4> QED
        BY <4>1, <4>2
    <3> QED
      BY <1>4, <3>1, <3>2
  <2>2. CASE \E k \in 1..Len(ms) : i = Len(q) + k
    <3>1. PICK k \in 1..Len(ms) : i = Len(q) + k
      BY <2>2
    <3>2. ms[k] \in B
      BY <1>1, <3>1 DEF Joins
    <3>3. PICK j \in 1..Len(ms) : j > k /\ ms[j] \in G
      BY <1>4, <3>2 DEF Covered
    <3>4. Len(q) + j \in 1..Len(r) /\ r[Len(q) + j] = ms[j] /\ Len(q) + j > i
      BY <1>1, <3>1, <3>3 DEF Joins
    <3> QED
      BY <3>3, <3>4
  <2> QED
    BY <1>1, <2>1, <2>2 DEF Joins
<1>5. ASSUME NEW B, Single(r, B)
      PROVE  Single(q, B) /\ Single(ms, B) /\ ~ (Has(q, B) /\ Has(ms, B))
  <2>1. Single(q, B)
    BY <1>1, <1>5 DEF Single, Joins
  <2>2. ASSUME NEW i \in 1..Len(ms), NEW j \in 1..Len(ms), ms[i] \in B, ms[j] \in B
        PROVE  i = j
    <3>1. Len(q) + i = Len(q) + j /\ Len(q) \in Nat
      BY <1>1, <1>5, <2>2 DEF Single, Joins
    <3> QED
      BY <3>1
  <2>3. ASSUME NEW i \in 1..Len(q), NEW j \in 1..Len(ms), q[i] \in B, ms[j] \in B
        PROVE  FALSE
    <3>1. i = Len(q) + j /\ Len(q) \in Nat
      BY <1>1, <1>5, <2>3 DEF Single, Joins
    <3> QED
      BY <3>1
  <2> QED
    BY <2>1, <2>2, <2>3 DEF Single, Has
<1>6. ASSUME NEW B, Single(q, B), Single(ms, B), ~ (Has(q, B) /\ Has(ms, B))
      PROVE  Single(r, B)
  <2> SUFFICES ASSUME NEW i \in 1..Len(r), NEW j \in 1..Len(r), r[i] \in B, r[j] \in B
               PROVE  i = j
    BY DEF Single
  <2>1. CASE Has(ms, B)
    <3>1. i \notin 1..Len(q) /\ j \notin 1..Len(q)
      BY <1>1, <1>6, <2>1 DEF Has, Joins
    <3>2. PICK a \in 1..Len(ms), b \in 1..Len(ms) : i = Len(q) + a /\ j = Len(q) + b
      BY <1>1, <3>1 DEF Joins
    <3>3. ms[a] \in B /\ ms[b] \in B
      BY <1>1, <3>2 DEF Joins
    <3> QED
      BY <1>6, <3>2, <3>3 DEF Single
  <2>2. CASE ~ Has(ms, B)
    <3>1. i \in 1..Len(q) /\ j \in 1..Len(q)
      BY <1>1, <2>2 DEF Has, Joins
    <3> QED
      BY <1>1, <1>6, <3>1 DEF Single, Joins
  <2> QED
    BY <2>1, <2>2
<1> QED
  BY <1>1, <1>2, <1>3, <1>4, <1>5, <1>6 DEF r

\* What is read was the first.
LEMMA Read ==
    ASSUME NEW S, NEW q \in Seq(S), q # <<>>
    PROVE  /\ Tail(q) \in Seq(S) /\ Head(q) = q[1] /\ Head(q) \in S
           /\ \A G : Has(q, G) <=> Head(q) \in G \/ Has(Tail(q), G)
           /\ \A B, G : Covered(q, B, G)
                        <=> Covered(Tail(q), B, G) /\ (Head(q) \in B => Has(Tail(q), G))
           /\ \A B : Single(q, B)
                     <=> Single(Tail(q), B) /\ (Head(q) \in B => ~ Has(Tail(q), B))
<1> DEFINE h == Head(q)
           t == Tail(q)
<1>1. h \in S /\ t \in Seq(S) /\ q = <<h>> \o t /\ h = q[1]
  BY HeadTailProperties
<1> HIDE DEF h, t
<1>2. <<h>> \in Seq(S) /\ Len(<<h>>) = 1 /\ <<h>>[1] = h
  BY <1>1
<1>3. \A i \in 1..Len(<<h>>) : i = 1 /\ <<h>>[i] = h
  BY <1>2
<1>4. 1 \in 1..Len(<<h>>)
  BY <1>2
<1>5. /\ \A G : Has(<<h>>, G) <=> h \in G
      /\ \A B, G : Covered(<<h>>, B, G) <=> h \notin B
      /\ \A B : Single(<<h>>, B)
  <2>1. \A G : Has(<<h>>, G) <=> h \in G
    BY <1>3, <1>4 DEF Has
  <2>2. \A B, G : Covered(<<h>>, B, G) <=> h \notin B
    BY <1>3, <1>4 DEF Covered
  <2>3. \A B : Single(<<h>>, B)
    BY <1>3 DEF Single
  <2> QED
    BY <2>1, <2>2, <2>3
<1> QED
  <2>1. /\ \A G : Has(q, G) <=> Has(<<h>>, G) \/ Has(t, G)
        /\ \A B, G : Covered(q, B, G)
                     <=> Covered(t, B, G) /\ (Covered(<<h>>, B, G) \/ Has(t, G))
        /\ \A B : Single(q, B)
                  <=> Single(<<h>>, B) /\ Single(t, B) /\ ~ (Has(<<h>>, B) /\ Has(t, B))
    BY <1>1, <1>2, Sent
  <2> QED
    BY <1>1, <1>5, <2>1 DEF h, t
\* What one message is worth, two of them, and none.
LEMMA One ==
    ASSUME NEW e
    PROVE  /\ \A G : Has(<<e>>, G) <=> e \in G
           /\ \A B, G : Covered(<<e>>, B, G) <=> e \notin B
           /\ \A B : Single(<<e>>, B)
<1>1. Len(<<e>>) = 1 /\ <<e>>[1] = e /\ 1 \in 1..Len(<<e>>)
  OBVIOUS
<1>2. \A i \in 1..Len(<<e>>) : i = 1 /\ <<e>>[i] = e
  BY <1>1
<1>3. \A G : Has(<<e>>, G) <=> e \in G
  BY <1>1, <1>2 DEF Has
<1>4. \A B, G : Covered(<<e>>, B, G) <=> e \notin B
  BY <1>1, <1>2 DEF Covered
<1>5. \A B : Single(<<e>>, B)
  BY <1>2 DEF Single
<1> QED
  BY <1>3, <1>4, <1>5

LEMMA Two ==
    ASSUME NEW S, NEW e \in S, NEW f \in S
    PROVE  /\ <<e, f>> \in Seq(S)
           /\ \A G : Has(<<e, f>>, G) <=> e \in G \/ f \in G
           /\ \A B, G : Covered(<<e, f>>, B, G) <=> f \notin B /\ (e \in B => f \in G)
           /\ \A B : Single(<<e, f>>, B) <=> ~ (e \in B /\ f \in B)
<1> DEFINE r == <<e, f>>
<1>1. /\ r \in Seq(S) /\ Len(r) = 2 /\ r[1] = e /\ r[2] = f
  OBVIOUS
<1> HIDE DEF r
<1>2. /\ \A i \in 1..Len(r) : i = 1 \/ i = 2
      /\ 1 \in 1..Len(r) /\ 2 \in 1..Len(r) /\ 2 > 1
  BY <1>1
<1>3. \A G : Has(r, G) <=> e \in G \/ f \in G
  BY <1>1, <1>2 DEF Has
<1>4. \A B, G : Covered(r, B, G) <=> f \notin B /\ (e \in B => f \in G)
  <2>1. \A j \in 1..Len(r) : ~ (j > 2) /\ (j > 1 => j = 2)
    BY <1>1
  <2> QED
    BY <1>1, <1>2, <2>1 DEF Covered
<1>5. \A B : Single(r, B) <=> ~ (e \in B /\ f \in B)
  BY <1>1, <1>2 DEF Single
<1> QED
  BY <1>1, <1>3, <1>4, <1>5 DEF r

LEMMA None ==
    /\ \A G : ~ Has(<<>>, G)
    /\ \A B, G : Covered(<<>>, B, G)
    /\ \A B : Single(<<>>, B)
<1>1. 1..Len(<<>>) = {}
  BY EmptySeq
<1> QED
  BY <1>1 DEF Has, Covered, Single

\* Without a message of B nothing is to be covered.
LEMMA Free ==
    ASSUME NEW q, NEW B, ~ Has(q, B)
    PROVE  Single(q, B) /\ \A G : Covered(q, B, G)
BY DEF Has, Single, Covered

LEMMA Less ==
    ASSUME NEW q, NEW B, NEW G, Covered(q, B, G),
           NEW C, NEW H, \A e : e \in C => e \in B, \A e : e \in G => e \in H
    PROVE  Covered(q, C, H)
BY DEF Covered

-----------------------------------------------------------------------------
(* Finite sets and the sequences made of them.                             *)

LEMMA Listing ==
    ASSUME NEW S, IsFiniteSet(S)
    PROVE  /\ SetToSeq(S) \in Seq(S) /\ Len(SetToSeq(S)) \in Nat
           /\ \A i, j \in 1..Len(SetToSeq(S)) : SetToSeq(S)[i] = SetToSeq(S)[j] => i = j
           /\ \A x : x \in S <=> \E i \in 1..Len(SetToSeq(S)) : SetToSeq(S)[i] = x
<1> DEFINE n == Cardinality(S)
           s == SetToSeq(S)
<1>1. n \in Nat /\ ExistsBijection(1..n, S)
  BY FS_CardinalityType
<1>2. IsFiniteSet(1..n) /\ Cardinality(1..n) = n
  <2> HIDE DEF n
  <2>1. n \in Int /\ 1 \in Int
    BY <1>1
  <2>2. IsFiniteSet(1..n) /\ Cardinality(1..n) = IF 1 > n THEN 0 ELSE n - 1 + 1
    BY <2>1, FS_Interval, Zenon
  <2> QED
    BY <1>1, <2>2
<1>3. PICK f \in Bijection(1..n, S) : TRUE
  BY <1>1 DEF ExistsBijection
<1>4. f \in [1..n -> S] /\ IsInjective(f)
  BY <1>3 DEF Bijection, Injection, IsInjective
<1>5. s \in [1..n -> S] /\ IsInjective(s)
  BY <1>4 DEF SetToSeq
<1>6. s \in Injection(1..n, S)
  BY <1>5 DEF IsInjective, Injection
<1>7. s \in Surjection(1..n, S)
  BY <1>2, <1>6, FS_Injection
<1> HIDE DEF s, n
<1>8. s \in Seq(S) /\ Len(s) = n
  BY <1>1, <1>5, SeqDef, LenProperties
<1>9. \A i, j \in 1..Len(s) : s[i] = s[j] => i = j
  BY <1>5, <1>8 DEF IsInjective
<1>10. \A x : x \in S <=> \E i \in 1..Len(s) : s[i] = x
  BY <1>5, <1>7, <1>8 DEF Surjection
<1> QED
  BY <1>1, <1>8, <1>9, <1>10 DEF s

LEMMA CallsFinite == IsFiniteSet(Call)
<1>1. IsFiniteSet(Objects)
  BY OfonoAssumption DEF OfonoAssumption
<1>2. IsFiniteSet(BOOLEAN)
  <2>1. IsFiniteSet({TRUE}) /\ IsFiniteSet({TRUE} \cup {FALSE})
    BY FS_Singleton, FS_AddElement
  <2>2. BOOLEAN = {TRUE} \cup {FALSE}
    OBVIOUS
  <2> QED
    BY <2>1, <2>2
<1>3. IsFiniteSet(Objects \X BOOLEAN)
  BY <1>1, <1>2, FS_Product
<1> DEFINE A == {GetProperties(o) : o \in Objects}
           T == {SetProperty(o, on) : o \in Objects, on \in BOOLEAN}
           ask == [o \in Objects |-> GetProperties(o)]
           set == [p \in Objects \X BOOLEAN |-> SetProperty(p[1], p[2])]
<1>4. ask \in Surjection(Objects, A)
  <2>1. ask \in [Objects -> A] /\ \A t \in A : \E o \in Objects : ask[o] = t
    OBVIOUS
  <2> QED
    BY <2>1, Fun_IsSurj
<1>5. set \in Surjection(Objects \X BOOLEAN, T)
  <2>1. set \in [Objects \X BOOLEAN -> T]
    OBVIOUS
  <2>2. ASSUME NEW t \in T PROVE \E p \in Objects \X BOOLEAN : set[p] = t
    <3>1. PICK o \in Objects, on \in BOOLEAN : t = SetProperty(o, on)
      OBVIOUS
    <3>2. <<o, on>> \in Objects \X BOOLEAN /\ set[<<o, on>>] = t
      BY <3>1
    <3> QED
      BY <3>2
  <2> QED
    BY <2>1, <2>2, Fun_IsSurj
<1>6. IsFiniteSet(A) /\ IsFiniteSet(T) /\ IsFiniteSet({GetModems})
  BY <1>1, <1>3, <1>4, <1>5, FS_Surjection, FS_Singleton
<1> HIDE DEF A, T
<1>7. IsFiniteSet({GetModems} \cup A) /\ IsFiniteSet(({GetModems} \cup A) \cup T)
  BY <1>6, FS_Union
<1> QED
  BY <1>7 DEF Call, A, T
-----------------------------------------------------------------------------
(* Messages and calls.                                                     *)

LEMMA CallCases ==
    ASSUME NEW c \in Call
    PROVE  /\ c.call \in {"GetModems", "GetProperties", "SetProperty"}
           /\ c.call = "GetModems" => c = GetModems
           /\ c.call = "GetProperties" => c.obj \in Objects /\ c = GetProperties(c.obj)
           /\ c.call = "SetProperty" => /\ c.obj \in Objects /\ c.online \in BOOLEAN
                                        /\ c = SetProperty(c.obj, c.online)
BY DEF Call, GetModems, GetProperties, SetProperty

LEMMA CallMade ==
    /\ GetModems \in Call /\ GetModems.call = "GetModems"
    /\ \A o : GetProperties(o).call = "GetProperties" /\ GetProperties(o).obj = o
    /\ \A o, on : /\ SetProperty(o, on).call = "SetProperty"
                  /\ SetProperty(o, on).obj = o /\ SetProperty(o, on).online = on
    /\ \A o \in Objects : GetProperties(o) \in Call
    /\ \A o \in Objects, on \in BOOLEAN : SetProperty(o, on) \in Call
<1>1. /\ GetModems.call = "GetModems"
      /\ \A o : GetProperties(o).call = "GetProperties" /\ GetProperties(o).obj = o
      /\ \A o, on : /\ SetProperty(o, on).call = "SetProperty"
                    /\ SetProperty(o, on).obj = o /\ SetProperty(o, on).online = on
  BY DEF GetModems, GetProperties, SetProperty
<1>2. /\ GetModems \in Call /\ \A o \in Objects : GetProperties(o) \in Call
      /\ \A o \in Objects, on \in BOOLEAN : SetProperty(o, on) \in Call
  BY DEF Call
<1> QED
  BY <1>1, <1>2

LEMMA MessageMade ==
    /\ \A up \in BOOLEAN : /\ NameOwnerChanged(up) \in Message
                           /\ NameOwnerChanged(up).msg = "NameOwnerChanged"
                           /\ NameOwnerChanged(up).up = up
    /\ \A s \in BOOLEAN : /\ ProxyReady(s) \in Message
                          /\ ProxyReady(s).msg = "ProxyReady" /\ ProxyReady(s).stale = s
    /\ \A m \in Modems : /\ ModemAdded(m) \in Message
                         /\ ModemAdded(m).msg = "ModemAdded" /\ ModemAdded(m).modem = m
                         /\ ModemRemoved(m) \in Message
                         /\ ModemRemoved(m).msg = "ModemRemoved"
                         /\ ModemRemoved(m).modem = m
<1>1. /\ \A up \in BOOLEAN : NameOwnerChanged(up) \in Message
      /\ \A s \in BOOLEAN : ProxyReady(s) \in Message
      /\ \A m \in Modems : ModemAdded(m) \in Message /\ ModemRemoved(m) \in Message
  BY DEF Message
<1>2. /\ \A up \in BOOLEAN : /\ NameOwnerChanged(up).msg = "NameOwnerChanged"
                             /\ NameOwnerChanged(up).up = up
      /\ \A s \in BOOLEAN : ProxyReady(s).msg = "ProxyReady" /\ ProxyReady(s).stale = s
  BY DEF NameOwnerChanged, ProxyReady
<1>3. \A m \in Modems : /\ ModemAdded(m).msg = "ModemAdded" /\ ModemAdded(m).modem = m
                        /\ ModemRemoved(m).msg = "ModemRemoved"
                        /\ ModemRemoved(m).modem = m
  BY DEF ModemAdded, ModemRemoved
<1> QED
  BY <1>1, <1>2, <1>3

LEMMA SignalMade ==
    \A e, v : \A m \in Modems, p \in {"Powered", "Online"} :
        e = PropertyChanged(m, p, v) /\ v \in BOOLEAN =>
            /\ e \in Message /\ e.msg = "PropertyChanged"
            /\ e.modem = m /\ e.prop = p /\ e.value = v
<1> SUFFICES ASSUME NEW m \in Modems, NEW p \in {"Powered", "Online"}, NEW v \in BOOLEAN,
                    NEW e, e = PropertyChanged(m, p, v)
             PROVE  /\ e \in Message /\ e.msg = "PropertyChanged"
                    /\ e.modem = m /\ e.prop = p /\ e.value = v
  OBVIOUS
<1>1. PropertyChanged(m, p, v) \in Message
  BY DEF Message
<1> QED
  BY <1>1 DEF PropertyChanged

LEMMA ReplyMade ==
    \A c \in Call, ok \in BOOLEAN, ms \in SUBSET Modems, s \in States :
        Reply(c, ok, ms, s) \in Message
BY DEF Message

LEMMA ErrorMade ==
    ASSUME NEW c \in Call
    PROVE  Error(c) \in Message /\ Error(c).msg = "Reply" /\ Error(c).call = c /\ Error(c).ok = FALSE
<1> DEFINE none == {}
<1>1. none \in SUBSET Modems /\ "absent" \in States
  BY DEF States
<1> HIDE DEF none
<1>2. Reply(c, FALSE, none, "absent") \in Message
  BY <1>1, ReplyMade
<1> QED
  BY <1>2 DEF Error, Reply, none

LEMMA MessageCases ==
    ASSUME NEW e \in Message
    PROVE  /\ e.msg \in {"NameOwnerChanged", "ProxyReady", "ModemAdded", "ModemRemoved",
                         "PropertyChanged", "Reply"}
           /\ e.msg = "NameOwnerChanged" => e.up \in BOOLEAN
           /\ e.msg = "ProxyReady" => e.stale \in BOOLEAN
           /\ e.msg \in {"ModemAdded", "ModemRemoved", "PropertyChanged"} => e.modem \in Modems
           /\ e.msg = "PropertyChanged" => e.prop \in {"Powered", "Online"} /\ e.value \in BOOLEAN
           /\ e.msg = "Reply" => /\ e.call \in Call /\ e.ok \in BOOLEAN
                                 /\ e.modems \in SUBSET Modems /\ e.state \in States
<1>1. CASE \E up \in BOOLEAN : e = NameOwnerChanged(up)
  BY <1>1 DEF NameOwnerChanged
<1>2. CASE \E s \in BOOLEAN : e = ProxyReady(s)
  BY <1>2 DEF ProxyReady
<1>3. CASE \E m \in Modems : e = ModemAdded(m) \/ e = ModemRemoved(m)
  BY <1>3 DEF ModemAdded, ModemRemoved
<1>4. CASE \E m \in Modems, p \in {"Powered", "Online"}, v \in BOOLEAN :
             e = PropertyChanged(m, p, v)
  BY <1>4 DEF PropertyChanged
<1>5. CASE \E c \in Call, ok \in BOOLEAN, ms \in SUBSET Modems, s \in States :
             e = Reply(c, ok, ms, s)
  BY <1>5 DEF Reply
<1> QED
  BY <1>1, <1>2, <1>3, <1>4, <1>5 DEF Message

\* What a message tells.
Val(p, state) == IF p = "Powered" THEN Powered(state) ELSE state = "online"
Properties == {"Powered", "Online"}

Owner(up)      == {e \in Message : e.msg = "NameOwnerChanged" /\ e.up = up}
Ready(stale)   == {e \in Message : e.msg = "ProxyReady" /\ e.stale = stale}
Gone(m)        == {e \in Message : e.msg = "ModemRemoved" /\ e.modem = m}
Drop(m)        == Owner(FALSE) \cup Gone(m)
Naming(m)      == {e \in Message :
                     \/ e.msg = "ModemAdded" /\ e.modem = m
                     \/ e.msg = "Reply" /\ e.call = GetModems /\ e.ok /\ m \in e.modems}
Signal(m, p)   == {e \in Message : e.msg = "PropertyChanged" /\ e.modem = m /\ e.prop = p}
Answer(o)      == {e \in Message : e.msg = "Reply" /\ e.call = GetProperties(o) /\ e.ok}
RepliesTo(C)   == {e \in Message : e.msg = "Reply" /\ e.call \in C}

SignalOf(m, p, v) == {e \in Signal(m, p) : e.value = v}
AnswerOf(o, p, v) == {e \in Answer(o) : Val(p, e.state) = v}

Errors(D) == SetToSeq({Error(c) : c \in D})

LEMMA ErrorsSent ==
    ASSUME NEW D \in SUBSET Call
    PROVE  /\ Errors(D) \in Seq(Message)
           /\ \A G : Has(Errors(D), G) <=> \E c \in D : Error(c) \in G
           /\ \A B : (\A c, d \in D : Error(c) \in B /\ Error(d) \in B => c = d)
                     => Single(Errors(D), B)
<1> DEFINE E == {Error(c) : c \in D}
           f == [c \in D |-> Error(c)]
           s == Errors(D)
<1>1. IsFiniteSet(D)
  BY CallsFinite, FS_Subset
<1>2. f \in Surjection(D, E)
  <2>1. f \in [D -> E] /\ \A t \in E : \E c \in D : f[c] = t
    OBVIOUS
  <2> QED
    BY <2>1, Fun_IsSurj
<1>3. IsFiniteSet(E) /\ \A x : x \in E <=> \E c \in D : Error(c) = x
  BY <1>1, <1>2, FS_Surjection
<1> HIDE DEF E
<1>4. /\ s \in Seq(E) /\ Len(s) \in Nat
      /\ \A i, j \in 1..Len(s) : s[i] = s[j] => i = j
      /\ \A x : x \in E <=> \E i \in 1..Len(s) : s[i] = x
  BY <1>3, Listing DEF Errors, E
<1> HIDE DEF s
<1>5. s \in Seq(Message)
  <2>1. \A x \in E : x \in Message
    BY <1>3, ErrorMade
  <2> QED
    BY <1>4, <2>1, SeqMonotonic
<1>6. ASSUME NEW G PROVE Has(s, G) <=> \E c \in D : Error(c) \in G
  <2>1. ASSUME NEW i \in 1..Len(s) PROVE \E c \in D : Error(c) = s[i]
    BY <1>3, <1>4
  <2>2. ASSUME NEW c \in D PROVE \E i \in 1..Len(s) : s[i] = Error(c)
    BY <1>3, <1>4
  <2> HIDE DEF f
  <2> QED
    BY <2>1, <2>2 DEF Has
<1>7. ASSUME NEW B, \A c, d \in D : Error(c) \in B /\ Error(d) \in B => c = d
      PROVE  Single(s, B)
  <2> SUFFICES ASSUME NEW i \in 1..Len(s), NEW j \in 1..Len(s), s[i] \in B, s[j] \in B
               PROVE  i = j
    BY DEF Single
  <2>1. PICK c \in D, d \in D : s[i] = Error(c) /\ s[j] = Error(d)
    BY <1>3, <1>4
  <2>2. c = d
    BY <1>7, <2>1
  <2> QED
    BY <1>4, <2>1, <2>2
<1> QED
  BY <1>5, <1>6, <1>7 DEF s
-----------------------------------------------------------------------------
(* Calls that are open: in the hands of oFono, or answered in the queue.   *)

Asking(o)  == {GetProperties(o)}
Setting(o) == {SetProperty(o, on) : on \in BOOLEAN}

\* One of the calls of C is open; one at a time, and answered once.
Pending(C, cs, q) == (\E c \in cs : c \in C) \/ Has(q, RepliesTo(C))
Alone(C, cs, q) ==
    /\ \A c, d \in cs : c \in C /\ d \in C => c = d
    /\ Single(q, RepliesTo(C))
    /\ ~ ((\E c \in cs : c \in C) /\ Has(q, RepliesTo(C)))

\* The messages ms answer the calls of D and no other, but for GetModems.
Answered(ms, D) ==
    \A C : GetModems \notin C =>
        /\ Has(ms, RepliesTo(C)) <=> \E c \in D : c \in C
        /\ (\A c, d \in D : c \in C /\ d \in C => c = d) => Single(ms, RepliesTo(C))

LEMMA Appended ==
    ASSUME NEW S, NEW q \in Seq(S), NEW e \in S
    PROVE  Append(q, e) = q \o <<e>> /\ <<e>> \in Seq(S)
OBVIOUS

LEMMA Moved ==
    ASSUME NEW C, GetModems \notin C, NEW cs, NEW D \in SUBSET cs,
           NEW q \in Seq(Message), NEW ms \in Seq(Message),
           Alone(C, cs, q), Answered(ms, D)
    PROVE  /\ Alone(C, cs \ D, q \o ms)
           /\ Pending(C, cs \ D, q \o ms) <=> Pending(C, cs, q)
<1>1. /\ Has(ms, RepliesTo(C)) <=> \E c \in D : c \in C
      /\ Single(ms, RepliesTo(C))
  BY DEF Alone, Answered
<1>2. /\ Has(q \o ms, RepliesTo(C)) <=> Has(q, RepliesTo(C)) \/ Has(ms, RepliesTo(C))
      /\ Single(q \o ms, RepliesTo(C))
         <=> /\ Single(q, RepliesTo(C)) /\ Single(ms, RepliesTo(C))
             /\ ~ (Has(q, RepliesTo(C)) /\ Has(ms, RepliesTo(C)))
  BY Sent
<1> QED
  BY <1>1, <1>2 DEF Alone, Pending

LEMMA Handled ==
    ASSUME NEW C, NEW cs, NEW q \in Seq(Message), q # <<>>, Alone(C, cs, q)
    PROVE  /\ Alone(C, cs, Tail(q))
           /\ Pending(C, cs, Tail(q)) <=> Pending(C, cs, q) /\ Head(q) \notin RepliesTo(C)
<1>1. /\ Has(q, RepliesTo(C)) <=> Head(q) \in RepliesTo(C) \/ Has(Tail(q), RepliesTo(C))
      /\ Single(q, RepliesTo(C))
         <=> /\ Single(Tail(q), RepliesTo(C))
             /\ (Head(q) \in RepliesTo(C) => ~ Has(Tail(q), RepliesTo(C)))
  BY Read
<1> QED
  BY <1>1 DEF Alone, Pending

LEMMA ErrorsAnswer ==
    ASSUME NEW D \in SUBSET Call
    PROVE  Errors(D) \in Seq(Message) /\ Answered(Errors(D), D)
<1>1. ASSUME NEW C, NEW c \in D PROVE Error(c) \in RepliesTo(C) <=> c \in C
  BY ErrorMade DEF RepliesTo
<1> QED
  BY <1>1, ErrorsSent DEF Answered

LEMMA Sends ==
    ASSUME NEW N \in SUBSET Call, NEW reached, NEW q \in Seq(Message), Send(N, reached, q),
           NEW C, GetModems \notin C, Alone(C, calls, q),
           \A c, d \in N : c \in C /\ d \in C => c = d,
           (\E c \in N : c \in C) => ~ Pending(C, calls, q)
    PROVE  /\ Alone(C, calls', queue')
           /\ Pending(C, calls', queue') <=> Pending(C, calls, q) \/ \E c \in N : c \in C
<1>1. CASE calls' = calls \cup N /\ queue' = q
  BY <1>1 DEF Alone, Pending
<1>2. CASE queue' = q \o Errors(N) /\ calls' = calls
  <2>1. /\ Errors(N) \in Seq(Message)
        /\ Has(Errors(N), RepliesTo(C)) <=> \E c \in N : c \in C
        /\ Single(Errors(N), RepliesTo(C))
    BY ErrorsAnswer DEF Answered
  <2>2. /\ Has(q \o Errors(N), RepliesTo(C))
           <=> Has(q, RepliesTo(C)) \/ Has(Errors(N), RepliesTo(C))
        /\ Single(q \o Errors(N), RepliesTo(C))
           <=> /\ Single(q, RepliesTo(C)) /\ Single(Errors(N), RepliesTo(C))
               /\ ~ (Has(q, RepliesTo(C)) /\ Has(Errors(N), RepliesTo(C)))
    BY <2>1, Sent
  <2> QED
    BY <1>2, <2>1, <2>2 DEF Alone, Pending
<1> QED
  BY <1>1, <1>2 DEF Send, Errors

LEMMA SendTyped ==
    ASSUME NEW N \in SUBSET Call, NEW reached, NEW q \in Seq(Message), Send(N, reached, q),
           calls \subseteq Call
    PROVE  queue' \in Seq(Message) /\ calls' \subseteq Call
<1>1. q \o Errors(N) \in Seq(Message)
  <2>1. Errors(N) \in Seq(Message)
    BY ErrorsAnswer
  <2> QED
    BY <2>1, Sent
<1>2. \/ calls' = calls \cup N /\ queue' = q
      \/ calls' = calls /\ queue' = q \o Errors(N)
  BY DEF Send, Errors
<1> QED
  BY <1>1, <1>2

\* The flags of an object are those of the calls that hold it.
Tracked(obj, cs, q) ==
    \A o \in Objects :
        /\ Alone(Asking(o), cs, q) /\ Alone(Setting(o), cs, q)
        /\ Pending(Asking(o), cs, q) <=> o \in DOMAIN obj /\ obj[o].asking
        /\ Pending(Setting(o), cs, q) <=> o \in DOMAIN obj /\ obj[o].pending
Well(obj) == DOMAIN obj \subseteq Objects /\ obj \in [DOMAIN obj -> Object]

\* Two objects that differ in nothing a call knows of.
SameCalls(a, b) ==
    /\ DOMAIN a = DOMAIN b
    /\ \A o \in DOMAIN a : a[o].asking = b[o].asking /\ a[o].pending = b[o].pending

LEMMA CallsApart ==
    ASSUME NEW o \in Objects
    PROVE  /\ GetModems \notin Asking(o) /\ GetModems \notin Setting(o)
           /\ \A d : GetProperties(d) \notin Setting(o)
           /\ \A d, on : SetProperty(d, on) \notin Asking(o)
           /\ \A d : GetProperties(d) \in Asking(o) <=> d = o
           /\ \A d \in Objects, on \in BOOLEAN : SetProperty(d, on) \in Setting(o) <=> d = o
BY CallMade DEF Asking, Setting

LEMMA TrackedMoved ==
    ASSUME NEW obj, NEW cs, NEW D \in SUBSET cs,
           NEW q \in Seq(Message), NEW ms \in Seq(Message),
           Tracked(obj, cs, q), Answered(ms, D), NEW now, SameCalls(obj, now)
    PROVE  Tracked(now, cs \ D, q \o ms)
<1> SUFFICES ASSUME NEW o \in Objects
             PROVE  /\ Alone(Asking(o), cs \ D, q \o ms)
                    /\ Alone(Setting(o), cs \ D, q \o ms)
                    /\ Pending(Asking(o), cs \ D, q \o ms)
                       <=> o \in DOMAIN now /\ now[o].asking
                    /\ Pending(Setting(o), cs \ D, q \o ms)
                       <=> o \in DOMAIN now /\ now[o].pending
  BY DEF Tracked
<1>1. GetModems \notin Asking(o) /\ GetModems \notin Setting(o)
  BY CallsApart
<1>2. Alone(Asking(o), cs, q) /\ Alone(Setting(o), cs, q)
  BY DEF Tracked
<1>3. /\ Alone(Asking(o), cs \ D, q \o ms)
      /\ Pending(Asking(o), cs \ D, q \o ms) <=> Pending(Asking(o), cs, q)
  BY <1>1, <1>2, Moved
<1>4. /\ Alone(Setting(o), cs \ D, q \o ms)
      /\ Pending(Setting(o), cs \ D, q \o ms) <=> Pending(Setting(o), cs, q)
  BY <1>1, <1>2, Moved
<1> QED
  BY <1>3, <1>4 DEF Tracked, SameCalls
\* What does not speak of calls goes before or behind the answers.
Mute(ms) == \A C : ~ Has(ms, RepliesTo(C))

LEMMA MuteOne ==
    ASSUME NEW e \in Message, e.msg # "Reply"
    PROVE  <<e>> \in Seq(Message) /\ Mute(<<e>>) /\ Answered(<<e>>, {})
<1>1. Mute(<<e>>)
  BY One DEF Mute, RepliesTo
<1>2. Answered(<<e>>, {})
  BY <1>1, One DEF Answered, Mute
<1> QED
  BY <1>1, <1>2

LEMMA AnswersAfter ==
    ASSUME NEW ms \in Seq(Message), NEW D, Answered(ms, D), NEW e \in Message, e.msg # "Reply"
    PROVE  <<e>> \o ms \in Seq(Message) /\ Answered(<<e>> \o ms, D)
<1>1. <<e>> \in Seq(Message) /\ Mute(<<e>>)
  BY MuteOne
<1>2. <<e>> \o ms \in Seq(Message)
  BY <1>1, Sent
<1>3. ASSUME NEW C
      PROVE  /\ Has(<<e>> \o ms, RepliesTo(C)) <=> Has(ms, RepliesTo(C))
             /\ Single(<<e>> \o ms, RepliesTo(C)) <=> Single(ms, RepliesTo(C))
  <2>1. ~ Has(<<e>>, RepliesTo(C)) /\ Single(<<e>>, RepliesTo(C))
    BY <1>1, One DEF Mute
  <2> QED
    BY <1>1, <2>1, Sent
<1> QED
  BY <1>2, <1>3 DEF Answered

LEMMA AnswersBefore ==
    ASSUME NEW ms \in Seq(Message), NEW D, Answered(ms, D), NEW e \in Message, e.msg # "Reply"
    PROVE  ms \o <<e>> \in Seq(Message) /\ Answered(ms \o <<e>>, D)
<1>1. <<e>> \in Seq(Message) /\ Mute(<<e>>)
  BY MuteOne
<1>2. ms \o <<e>> \in Seq(Message)
  BY <1>1, Sent
<1>3. ASSUME NEW C
      PROVE  /\ Has(ms \o <<e>>, RepliesTo(C)) <=> Has(ms, RepliesTo(C))
             /\ Single(ms \o <<e>>, RepliesTo(C)) <=> Single(ms, RepliesTo(C))
  <2>1. ~ Has(<<e>>, RepliesTo(C)) /\ Single(<<e>>, RepliesTo(C))
    BY <1>1, One DEF Mute
  <2> QED
    BY <1>1, <2>1, Sent
<1> QED
  BY <1>2, <1>3 DEF Answered

LEMMA AnswerOne ==
    ASSUME NEW e \in Message, e.msg = "Reply"
    PROVE  <<e>> \in Seq(Message) /\ Answered(<<e>>, {e.call})
<1>1. ASSUME NEW C PROVE e \in RepliesTo(C) <=> e.call \in C
  BY DEF RepliesTo
<1> QED
  BY <1>1, One DEF Answered

LEMMA NothingSent == <<>> \in Seq(Message) /\ Answered(<<>>, {})
BY None DEF Answered

\* dispose takes nothing that a call holds.
LEMMA Disposed ==
    ASSUME NEW obj, Well(obj), NEW l, NEW d, NEW cs, NEW q, Tracked(obj, cs, q)
    PROVE  LET now == dispose(obj, l, d) IN
           /\ Tracked(now, cs, q) /\ Well(now)
           /\ DOMAIN now \subseteq DOMAIN obj
           /\ \A o \in DOMAIN now : now[o] = obj[o]
           /\ \A o \in DOMAIN obj : o \in l \cup d => o \in DOMAIN now
<1> DEFINE now == dispose(obj, l, d)
<1>1. /\ DOMAIN now \subseteq DOMAIN obj
      /\ \A o \in DOMAIN now : now[o] = obj[o]
      /\ \A o \in DOMAIN obj : o \in l \cup d => o \in DOMAIN now
      /\ \A o \in DOMAIN obj : obj[o].asking \/ obj[o].pending => o \in DOMAIN now
  BY DEF dispose, Held, Restrict
<1>2. now = [o \in DOMAIN now |-> now[o]]
  BY DEF dispose, Restrict
<1> HIDE DEF now
<1>3. Well(now)
  BY <1>1, <1>2 DEF Well
<1>4. Tracked(now, cs, q)
  BY <1>1 DEF Tracked
<1> QED
  BY <1>1, <1>3, <1>4 DEF now

\* set_soft: the objects that are told keep a reference until the answer.
LEMMA SoftSet ==
    ASSUME NEW obj, Well(obj), NEW os \in SUBSET (DOMAIN obj), NEW q \in Seq(Message),
           calls \subseteq Call, Tracked(obj, calls, q), set_soft(os, obj, q)
    PROVE  /\ Tracked(object', calls', queue') /\ Well(object')
           /\ queue' \in Seq(Message) /\ calls' \subseteq Call
           /\ DOMAIN object' = DOMAIN obj
           /\ \A o \in DOMAIN obj : \E b \in BOOLEAN : object'[o] = [obj[o] EXCEPT !.pending = b]
<1> DEFINE free == {o \in os : ~ obj[o].pending}
<1>1. PICK on \in BOOLEAN :
        /\ Send({SetProperty(o, on) : o \in free}, Known(q), q)
        /\ object' = [o \in DOMAIN obj |-> IF o \in free
                                           THEN [obj[o] EXCEPT !.pending = TRUE]
                                           ELSE obj[o]]
  BY DEF set_soft
<1> DEFINE N == {SetProperty(o, on) : o \in free}
<1>2. N \in SUBSET Call /\ free \subseteq Objects
  BY CallMade DEF Well
<1>3. ASSUME NEW o \in DOMAIN obj
      PROVE  /\ obj[o] \in Object
             /\ object'[o] = IF o \in free THEN [obj[o] EXCEPT !.pending = TRUE] ELSE obj[o]
             /\ object'[o] \in Object
             /\ object'[o].asking = obj[o].asking
             /\ object'[o].pending = IF o \in free THEN TRUE ELSE obj[o].pending
  <2>1. obj[o] \in Object
    BY DEF Well
  <2>2. object'[o] = IF o \in free THEN [obj[o] EXCEPT !.pending = TRUE] ELSE obj[o]
    BY <1>1
  <2> HIDE DEF free
  <2> QED
    BY <2>1, <2>2 DEF Object
<1>4. DOMAIN object' = DOMAIN obj
  BY <1>1
<1>5. Well(object')
  BY <1>1, <1>3, <1>4 DEF Well
<1>6. queue' \in Seq(Message) /\ calls' \subseteq Call
  BY <1>1, <1>2, SendTyped
<1>7. \A o \in DOMAIN obj : \E b \in BOOLEAN : object'[o] = [obj[o] EXCEPT !.pending = b]
  <2> SUFFICES ASSUME NEW o \in DOMAIN obj
               PROVE  \E b \in BOOLEAN : object'[o] = [obj[o] EXCEPT !.pending = b]
    OBVIOUS
  <2>1. CASE o \in free
    BY <1>3, <2>1
  <2>2. CASE o \notin free
    <3>1. obj[o].pending \in BOOLEAN /\ obj[o] = [obj[o] EXCEPT !.pending = obj[o].pending]
      BY <1>3 DEF Object
    <3> QED
      BY <1>3, <2>2, <3>1
  <2> QED
    BY <2>1, <2>2
<1>8. Tracked(object', calls', queue')
  <2> SUFFICES ASSUME NEW o \in Objects
               PROVE  /\ Alone(Asking(o), calls', queue') /\ Alone(Setting(o), calls', queue')
                      /\ Pending(Asking(o), calls', queue')
                         <=> o \in DOMAIN obj /\ obj[o].asking
                      /\ Pending(Setting(o), calls', queue')
                         <=> \/ o \in DOMAIN obj /\ obj[o].pending
                             \/ o \in free
    BY <1>3, <1>4 DEF Tracked
  <2>1. /\ Alone(Asking(o), calls, q) /\ Alone(Setting(o), calls, q)
        /\ Pending(Asking(o), calls, q) <=> o \in DOMAIN obj /\ obj[o].asking
        /\ Pending(Setting(o), calls, q) <=> o \in DOMAIN obj /\ obj[o].pending
    BY DEF Tracked
  <2>2. \A c \in N : c \notin Asking(o)
    BY CallsApart
  <2>3. /\ (\E c \in N : c \in Setting(o)) <=> o \in free
        /\ \A c, d \in N : c \in Setting(o) /\ d \in Setting(o) => c = d
    BY <1>2, CallsApart
  <2>4. o \in free => ~ Pending(Setting(o), calls, q)
    BY <2>1
  <2> HIDE DEF N, free
  <2>5. GetModems \notin Asking(o) /\ GetModems \notin Setting(o)
    BY CallsApart
  <2>6. Send(N, Known(q), q)
    BY <1>1 DEF N
  <2>7. /\ Alone(Asking(o), calls', queue')
        /\ Pending(Asking(o), calls', queue') <=> Pending(Asking(o), calls, q)
    BY <1>2, <2>1, <2>2, <2>5, <2>6, Sends
  <2>8. /\ Alone(Setting(o), calls', queue')
        /\ Pending(Setting(o), calls', queue') <=> Pending(Setting(o), calls, q) \/ o \in free
    BY <1>2, <2>1, <2>3, <2>4, <2>5, <2>6, Sends
  <2> QED
    BY <2>1, <2>7, <2>8
<1> QED
  BY <1>4, <1>5, <1>6, <1>7, <1>8
Shape ==
    /\ running \in BOOLEAN
    /\ modem \in [Modems -> States]
    /\ calls \subseteq Call
    /\ queue \in Seq(Message)
    /\ cancelled \in BOOLEAN
    /\ proxy \in [current : BOOLEAN, leaked : BOOLEAN]
    /\ Well(object)
    /\ list \subseteq Alive
    /\ devices \subseteq Alive
    /\ modem_idx \in Nat
    /\ aborted \in BOOLEAN
    /\ inputs \in 0..MaxInputs
    /\ failed \in BOOLEAN

CallsInv == Shape /\ Tracked(object, calls, queue)

LEMMA InvTyped == CallsInv => TypeOK
<1> SUFFICES ASSUME CallsInv PROVE TypeOK
  OBVIOUS
<1>1. Shape /\ Tracked(object, calls, queue)
  BY DEF CallsInv
<1>2. Alive \subseteq Objects /\ object \in [Alive -> Object]
  BY <1>1 DEF Shape, Well, Alive
<1>3. ASSUME NEW o \in Alive
      PROVE  /\ object[o].asking = Open(GetProperties(o))
             /\ object[o].pending = \E on \in BOOLEAN : Open(SetProperty(o, on))
  <2>1. object[o].asking \in BOOLEAN /\ object[o].pending \in BOOLEAN
    BY <1>2 DEF Object
  <2>2. DOMAIN queue = 1..Len(queue) /\ \A i \in 1..Len(queue) : queue[i] \in Message
    BY <1>1, LenProperties, ElementOfSeq DEF Shape
  <2>3. \A c : Open(c) <=> c \in calls \/ \E i \in 1..Len(queue) : queue[i].msg = "Reply"
                                                                  /\ queue[i].call = c
    BY <2>2 DEF Open
  <2>4. Pending(Asking(o), calls, queue) <=> Open(GetProperties(o))
    BY <2>2, <2>3 DEF Pending, Has, RepliesTo, Asking
  <2>5. Pending(Setting(o), calls, queue) <=> \E on \in BOOLEAN : Open(SetProperty(o, on))
    <3>1. ASSUME Pending(Setting(o), calls, queue)
          PROVE  \E on \in BOOLEAN : Open(SetProperty(o, on))
      BY <2>2, <2>3, <3>1 DEF Pending, Has, RepliesTo, Setting
    <3>2. ASSUME NEW on \in BOOLEAN, Open(SetProperty(o, on))
          PROVE  Pending(Setting(o), calls, queue)
      <4>1. SetProperty(o, on) \in Setting(o)
        BY DEF Setting
      <4> QED
        BY <2>2, <2>3, <3>2, <4>1 DEF Pending, Has, RepliesTo
    <3> QED
      BY <3>1, <3>2
  <2>6. /\ Pending(Asking(o), calls, queue) <=> object[o].asking
        /\ Pending(Setting(o), calls, queue) <=> object[o].pending
    BY <1>1, <1>2 DEF Tracked, Alive
  <2>7. Open(GetProperties(o)) \in BOOLEAN
    BY DEF Open
  <2>8. object[o].asking = Open(GetProperties(o))
    BY <2>1, <2>4, <2>6, <2>7
  <2> DEFINE on == \E on \in BOOLEAN : Open(SetProperty(o, on))
  <2>9. on \in BOOLEAN /\ (object[o].pending <=> on)
    BY <2>5, <2>6
  <2> HIDE DEF on
  <2>10. object[o].pending = on
    BY <2>1, <2>9
  <2> QED
    BY <2>8, <2>10 DEF on
<1> QED
  BY <1>1, <1>2, <1>3 DEF Shape, TypeOK

LEMMA CallsBegin == Init => CallsInv
<1> SUFFICES ASSUME Init PROVE CallsInv
  OBVIOUS
<1>1. DOMAIN object = {} /\ Len(queue) = 0 /\ calls = {} /\ queue = <<>>
  BY EmptySeq DEF Init
<1>2. Well(object)
  <2>1. object = [o \in {} |-> object[o]]
    BY <1>1 DEF Init
  <2> QED
    BY <1>1, <2>1 DEF Well
<1>3. Shape
  <2>1. queue \in Seq(Message)
    BY EmptySeq DEF Init
  <2>2. MaxInputs \in Nat
    BY OfonoAssumption DEF OfonoAssumption
  <2>3. modem \in [Modems -> States] /\ proxy \in [current : BOOLEAN, leaked : BOOLEAN]
    BY DEF Init, States
  <2>4. list \subseteq Alive /\ devices \subseteq Alive
    BY DEF Init
  <2>5. /\ running \in BOOLEAN /\ cancelled \in BOOLEAN /\ modem_idx \in Nat
        /\ aborted \in BOOLEAN /\ inputs = 0 /\ failed \in BOOLEAN
    BY DEF Init
  <2>6. inputs \in 0..MaxInputs
    BY <2>2, <2>5
  <2> QED
    BY <1>1, <1>2, <2>1, <2>3, <2>4, <2>5, <2>6 DEF Shape
<1>4. Tracked(object, calls, queue)
  <2>1. \A C : ~ Has(queue, C) /\ Single(queue, C)
    BY <1>1, None
  <2> QED
    BY <1>1, <2>1 DEF Tracked, Alone, Pending
<1> QED
  BY <1>3, <1>4 DEF CallsInv

-----------------------------------------------------------------------------
(* What oFono and the bus send.                                            *)

\* The messages that tell of nothing but of a call that is over.
Dull == {e \in Message : e.msg = "Reply" /\ (~ e.ok \/ e.call.call = "SetProperty")}
Plain(G) == \A e \in Dull : e \notin G
Worth(ms, es) ==
    \A B, G : Plain(B) /\ Plain(G) =>
        /\ Has(ms, G) <=> Has(es, G)
        /\ Covered(ms, B, G) <=> Covered(es, B, G)

\* The messages es are sent, and the calls of D get an answer.
Says(es, D) ==
    /\ D \subseteq calls /\ calls' = calls \ D
    /\ \E ms \in Seq(Message) : queue' = queue \o ms /\ Answered(ms, D) /\ Worth(ms, es)

LEMMA ErrorsDull ==
    ASSUME NEW D \in SUBSET Call, NEW B, Plain(B)
    PROVE  ~ Has(Errors(D), B) /\ \A G : Covered(Errors(D), B, G)
<1>1. \A c \in D : Error(c) \in Dull
  BY ErrorMade DEF Dull
<1>2. ~ Has(Errors(D), B)
  BY <1>1, ErrorsSent DEF Plain
<1> QED
  BY <1>2, Free

LEMMA SaysOne ==
    ASSUME CallsInv, NEW e \in Message, e.msg # "Reply", queue' = Append(queue, e),
           UNCHANGED calls
    PROVE  Says(<<e>>, {})
<1>1. queue \in Seq(Message)
  BY DEF CallsInv, Shape
<1>2. queue' = queue \o <<e>>
  BY <1>1, Appended
<1>3. <<e>> \in Seq(Message) /\ Answered(<<e>>, {})
  BY MuteOne
<1>4. Worth(<<e>>, <<e>>)
  BY DEF Worth
<1> QED
  BY <1>2, <1>3, <1>4 DEF Says

LEMMA SaysReply ==
    ASSUME CallsInv, NEW e \in Message, e.msg = "Reply", e.call \in calls,
           queue' = Append(queue, e), calls' = calls \ {e.call}
    PROVE  Says(<<e>>, {e.call})
<1>1. queue \in Seq(Message)
  BY DEF CallsInv, Shape
<1>2. queue' = queue \o <<e>>
  BY <1>1, Appended
<1>3. <<e>> \in Seq(Message) /\ Answered(<<e>>, {e.call})
  BY AnswerOne
<1>4. Worth(<<e>>, <<e>>)
  BY DEF Worth
<1> QED
  BY <1>2, <1>3, <1>4 DEF Says

LEMMA StartSays == ASSUME CallsInv, Start PROVE Says(<<NameOwnerChanged(TRUE)>>, {})
BY SaysOne, MessageMade DEF Start

LEMMA AppearsSays ==
    ASSUME CallsInv, NEW m \in Modems, ModemAppears(m)
    PROVE  Says(<<ModemAdded(m)>>, {})
BY SaysOne, MessageMade DEF ModemAppears

LEMMA StopSays == ASSUME CallsInv, Stop PROVE Says(<<NameOwnerChanged(FALSE)>>, calls)
<1> DEFINE e == NameOwnerChanged(FALSE)
<1>1. queue \in Seq(Message) /\ calls \subseteq Call
  BY DEF CallsInv, Shape
<1>2. e \in Message /\ e.msg # "Reply"
  BY MessageMade
<1> HIDE DEF e
<1>3. Errors(calls) \in Seq(Message) /\ Answered(Errors(calls), calls)
  BY <1>1, ErrorsAnswer
<1> DEFINE ms == <<e>> \o Errors(calls)
<1>4. ms \in Seq(Message) /\ Answered(ms, calls)
  BY <1>2, <1>3, AnswersAfter
<1>5. queue' = queue \o ms
  <2>1. queue' = Append(queue, e) \o Errors(calls)
    BY DEF Stop, Errors, e
  <2>2. Append(queue, e) = queue \o <<e>> /\ <<e>> \in Seq(Message)
    BY <1>1, <1>2, Appended
  <2> QED
    BY <1>1, <1>3, <2>1, <2>2, ConcatAssociative
<1>6. Worth(ms, <<e>>)
  <2> SUFFICES ASSUME NEW B, NEW G, Plain(B), Plain(G)
               PROVE  /\ Has(ms, G) <=> Has(<<e>>, G)
                      /\ Covered(ms, B, G) <=> Covered(<<e>>, B, G)
    BY DEF Worth
  <2>1. /\ ~ Has(Errors(calls), G) /\ Covered(Errors(calls), B, G)
    BY <1>1, ErrorsDull
  <2>2. <<e>> \in Seq(Message)
    BY <1>2
  <2> QED
    BY <1>3, <2>1, <2>2, Sent
<1>7. calls' = calls \ calls
  BY DEF Stop
<1> HIDE DEF ms
<1> QED
  BY <1>4, <1>5, <1>6, <1>7 DEF Says, e

Calling(m) == {c \in calls : c # GetModems /\ c.obj \in Alive /\ object[c.obj].modem = m}

LEMMA DisappearsSays ==
    ASSUME CallsInv, NEW m \in Modems, ModemDisappears(m)
    PROVE  Says(<<ModemRemoved(m)>>, Calling(m))
<1> DEFINE e == ModemRemoved(m)
           D == Calling(m)
<1>1. queue \in Seq(Message) /\ calls \subseteq Call /\ D \subseteq calls /\ D \in SUBSET Call
  BY DEF CallsInv, Shape, Calling
<1>2. e \in Message /\ e.msg # "Reply"
  BY MessageMade
<1>3. queue' = queue \o Errors(D) \o <<e>> /\ calls' = calls \ D
  BY DEF ModemDisappears, Errors, Calling
<1> HIDE DEF e, D
<1>4. Errors(D) \in Seq(Message) /\ Answered(Errors(D), D)
  BY <1>1, ErrorsAnswer
<1> DEFINE ms == Errors(D) \o <<e>>
<1>5. ms \in Seq(Message) /\ Answered(ms, D) /\ <<e>> \in Seq(Message)
  BY <1>2, <1>4, AnswersBefore
<1>6. queue' = queue \o ms
  BY <1>1, <1>3, <1>4, <1>5, ConcatAssociative
<1>7. Worth(ms, <<e>>)
  <2> SUFFICES ASSUME NEW B, NEW G, Plain(B), Plain(G)
               PROVE  /\ Has(ms, G) <=> Has(<<e>>, G)
                      /\ Covered(ms, B, G) <=> Covered(<<e>>, B, G)
    BY DEF Worth
  <2>1. /\ ~ Has(Errors(D), G) /\ Covered(Errors(D), B, G)
    BY <1>1, ErrorsDull
  <2> QED
    BY <1>4, <1>5, <2>1, Sent
<1> HIDE DEF ms
<1> QED
  BY <1>1, <1>3, <1>5, <1>6, <1>7 DEF Says, e, D
\* It goes off line before it is powered down.
Powering(m) ==
    (IF modem[m] = "online" THEN <<PropertyChanged(m, "Online", FALSE)>> ELSE <<>>)
    \o <<PropertyChanged(m, "Powered", Powered(modem'[m]))>>

LEMMA PowersSays ==
    ASSUME CallsInv, NEW m \in Modems, ModemPowers(m)
    PROVE  Says(Powering(m), {}) /\ Powering(m) \in Seq(Message)
<1> DEFINE a == IF modem[m] = "online" THEN <<PropertyChanged(m, "Online", FALSE)>> ELSE <<>>
           e == PropertyChanged(m, "Powered", Powered(modem'[m]))
<1>1. queue \in Seq(Message)
  BY DEF CallsInv, Shape
<1>2. e \in Message /\ e.msg # "Reply"
  <2> DEFINE v == Powered(modem'[m])
  <2>1. v \in BOOLEAN
    BY DEF Powered
  <2>2. e = PropertyChanged(m, "Powered", v)
    OBVIOUS
  <2> HIDE DEF v, e
  <2>3. e \in Message /\ e.msg = "PropertyChanged"
    BY <2>1, <2>2, SignalMade, Zenon
  <2> QED
    BY <2>3
<1>3. a \in Seq(Message) /\ Answered(a, {})
  <2>1. /\ PropertyChanged(m, "Online", FALSE) \in Message
        /\ PropertyChanged(m, "Online", FALSE).msg # "Reply"
    BY SignalMade
  <2>2. /\ <<PropertyChanged(m, "Online", FALSE)>> \in Seq(Message)
        /\ Answered(<<PropertyChanged(m, "Online", FALSE)>>, {})
    BY <2>1, MuteOne
  <2> QED
    BY <2>2, NothingSent
<1>4. queue' = queue \o a \o <<e>> /\ calls' = calls
  BY DEF ModemPowers
<1>5. Powering(m) = a \o <<e>>
  BY DEF Powering
<1> HIDE DEF a, e
<1>6. a \o <<e>> \in Seq(Message) /\ Answered(a \o <<e>>, {}) /\ <<e>> \in Seq(Message)
  BY <1>2, <1>3, AnswersBefore
<1>7. queue' = queue \o (a \o <<e>>)
  BY <1>1, <1>3, <1>4, <1>6, ConcatAssociative
<1> QED
  BY <1>4, <1>5, <1>6, <1>7 DEF Says, Worth

LEMMA ModemsSays ==
    ASSUME CallsInv, AnswerGetModems
    PROVE  LET e == Reply(GetModems, TRUE, Present, "absent") IN
           /\ e \in Message /\ e.msg = "Reply" /\ e.call = GetModems /\ e.ok /\ e.modems = Present
           /\ Says(<<e>>, {GetModems})
<1> DEFINE e == Reply(GetModems, TRUE, Present, "absent")
<1>1. /\ e \in Message /\ e.msg = "Reply" /\ e.call = GetModems /\ e.ok
      /\ e.modems = Present
  <2>1. Present \in SUBSET Modems /\ "absent" \in States /\ GetModems \in Call
    BY CallMade DEF Present, States
  <2> DEFINE f == e
  <2>2. f = Reply(GetModems, TRUE, Present, "absent")
    OBVIOUS
  <2> HIDE DEF f
  <2>3. f \in Message
    BY <2>1, <2>2, ReplyMade, Zenon
  <2>4. f.msg = "Reply" /\ f.call = GetModems /\ f.ok = TRUE /\ f.modems = Present
    BY <2>2 DEF Reply
  <2> QED
    BY <2>3, <2>4 DEF f
<1>2. queue' = Append(queue, e) /\ calls' = calls \ {GetModems} /\ GetModems \in calls
  BY DEF AnswerGetModems
<1> HIDE DEF e
<1>3. Says(<<e>>, {e.call})
  BY <1>1, <1>2, SaysReply
<1> QED
  BY <1>1, <1>3 DEF e

LEMMA PropertiesSays ==
    ASSUME CallsInv, AnswerGetProperties
    PROVE  \E o \in Alive :
             LET e == Reply(GetProperties(o), modem[object[o].modem] # "absent", {},
                            modem[object[o].modem]) IN
             /\ e \in Message /\ e.msg = "Reply" /\ e.call = GetProperties(o)
             /\ e.ok = (modem[object[o].modem] # "absent")
             /\ e.state = modem[object[o].modem]
             /\ Says(<<e>>, {GetProperties(o)})
<1>1. PICK o \in Alive :
        /\ GetProperties(o) \in calls
        /\ queue' = Append(queue, Reply(GetProperties(o), modem[object[o].modem] # "absent", {},
                                        modem[object[o].modem]))
        /\ calls' = calls \ {GetProperties(o)}
  BY DEF AnswerGetProperties
<1> DEFINE s == modem[object[o].modem]
           none == {}
           ok == s # "absent"
           e == Reply(GetProperties(o), ok, none, s)
<1>2. ok \in BOOLEAN /\ s \in States /\ GetProperties(o) \in Call /\ none \in SUBSET Modems
  BY <1>1 DEF CallsInv, Shape, Well, Object, Alive
<1>3. queue' = Append(queue, e)
  BY <1>1
<1>4. ok = (s # "absent") /\ e = Reply(GetProperties(o), ok, none, s)
  OBVIOUS
<1> HIDE DEF s, none, ok, e
<1>5. /\ e \in Message /\ e.msg = "Reply" /\ e.call = GetProperties(o)
      /\ e.ok = ok /\ e.state = s
  <2> DEFINE c == GetProperties(o)
  <2>1. c \in Call /\ e = Reply(c, ok, none, s)
    BY <1>2, <1>4
  <2> HIDE DEF c
  <2>2. e \in Message
    BY <1>2, <2>1, ReplyMade, Zenon
  <2>3. e.msg = "Reply" /\ e.call = c /\ e.ok = ok /\ e.state = s
    BY <2>1 DEF Reply
  <2> QED
    BY <2>2, <2>3 DEF c
<1>6. Says(<<e>>, {e.call})
  BY <1>1, <1>3, <1>5, SaysReply
<1> QED
  BY <1>4, <1>5, <1>6 DEF e, s, none, ok

\* A modem goes on line or off line, or the call has changed nothing.
LEMMA SettingSays ==
    ASSUME CallsInv, AnswerSetProperty
    PROVE  \E o \in Alive, on \in BOOLEAN, es \in Seq(Message) :
             LET m == object[o].modem IN
             /\ Says(es, {SetProperty(o, on)})
             /\ \/ /\ modem' = modem
                   /\ \A G : Plain(G) => ~ Has(es, G)
                \/ /\ Powered(modem[m])
                   /\ modem' = [modem EXCEPT ![m] = IF on THEN "online" ELSE "offline"]
                   /\ \A B, G : Plain(B) /\ Plain(G) =>
                        /\ Has(es, G) <=> PropertyChanged(m, "Online", on) \in G
                        /\ Covered(es, B, G) <=> PropertyChanged(m, "Online", on) \notin B
<1> DEFINE done(c) == Reply(c, TRUE, {}, "absent")
<1>1. PICK o \in Alive, on \in BOOLEAN :
        LET c == SetProperty(o, on)
            m == object[o].modem
        IN /\ c \in calls
           /\ \/ /\ Powered(modem[m])
                 /\ modem' = [modem EXCEPT ![m] = IF on THEN "online" ELSE "offline"]
                 /\ queue' = IF modem' = modem THEN Append(queue, done(c))
                             ELSE queue \o <<PropertyChanged(m, "Online", on), done(c)>>
              \/ /\ ~ Powered(modem[m])
                 /\ queue' = Append(queue, Error(c))
                 /\ UNCHANGED modem
           /\ calls' = calls \ {c}
  BY DEF AnswerSetProperty
<1> DEFINE c == SetProperty(o, on)
           m == object[o].modem
           f == done(c)
           p == PropertyChanged(m, "Online", on)
<1>2. /\ c \in calls /\ c \in Call /\ c.call = "SetProperty"
      /\ m \in Modems /\ queue \in Seq(Message)
  BY <1>1, CallMade DEF CallsInv, Shape, Well, Object, Alive
<1>3. f \in Message /\ f.msg = "Reply" /\ f.call = c
  <2> DEFINE none == {}
  <2>1. none \in SUBSET Modems /\ "absent" \in States
    BY DEF States
  <2>2. f = Reply(c, TRUE, none, "absent")
    OBVIOUS
  <2> HIDE DEF none, c, f
  <2> QED
    <3>1. f \in Message
      BY <1>2, <2>1, <2>2, ReplyMade, Zenon
    <3>2. f.msg = "Reply" /\ f.call = c
      BY <2>2 DEF Reply
    <3> QED
      BY <3>1, <3>2
<1>4. /\ p \in Message /\ p.msg = "PropertyChanged"
      /\ Error(c) \in Message /\ Error(c).msg = "Reply" /\ Error(c).call = c
  <2>1. p = PropertyChanged(m, "Online", on)
    OBVIOUS
  <2> HIDE DEF p, m, c
  <2>2. p \in Message /\ p.msg = "PropertyChanged"
    BY <1>2, <2>1, SignalMade
  <2> QED
    BY <1>2, <2>2, ErrorMade
<1>5. \/ modem' = modem /\ queue' = Append(queue, f)
      \/ modem' = modem /\ queue' = Append(queue, Error(c))
      \/ /\ Powered(modem[m])
         /\ modem' = [modem EXCEPT ![m] = IF on THEN "online" ELSE "offline"]
         /\ queue' = queue \o <<p, f>>
  BY <1>1
<1>6. calls' = calls \ {c}
  BY <1>1
<1> HIDE DEF c, m, f, p
<1>7. ASSUME NEW e \in Message, e.msg = "Reply", e.call = c, queue' = Append(queue, e),
             modem' = modem
      PROVE  /\ Says(<<e>>, {c}) /\ <<e>> \in Seq(Message)
             /\ \A G : Plain(G) => ~ Has(<<e>>, G)
  <2>1. Says(<<e>>, {e.call})
    BY <1>2, <1>6, <1>7, SaysReply
  <2>2. e \in Dull /\ <<e>> \in Seq(Message)
    BY <1>2, <1>7 DEF Dull
  <2> QED
    BY <1>7, <2>1, <2>2, One DEF Plain
<1>8. ASSUME Powered(modem[m]),
             modem' = [modem EXCEPT ![m] = IF on THEN "online" ELSE "offline"],
             queue' = queue \o <<p, f>>
      PROVE  /\ Says(<<p, f>>, {c}) /\ <<p, f>> \in Seq(Message)
             /\ \A B, G : Plain(B) /\ Plain(G) =>
                  /\ Has(<<p, f>>, G) <=> p \in G
                  /\ Covered(<<p, f>>, B, G) <=> p \notin B
  <2>1. <<p, f>> \in Seq(Message)
    BY <1>3, <1>4
  <2>2. f \in Dull
    BY <1>2, <1>3 DEF Dull
  <2>3. \A C : p \notin RepliesTo(C) /\ (f \in RepliesTo(C) <=> c \in C)
    BY <1>3, <1>4 DEF RepliesTo
  <2>4. Answered(<<p, f>>, {c})
    BY <1>3, <1>4, <2>3, Two DEF Answered
  <2>5. Says(<<p, f>>, {c})
    BY <1>2, <1>6, <1>8, <2>1, <2>4 DEF Says, Worth
  <2> QED
    BY <1>3, <1>4, <2>1, <2>2, <2>5, Two DEF Plain
<1> QED
  <2>1. CASE queue' = Append(queue, f) /\ modem' = modem
    BY <1>3, <1>7, <2>1 DEF c
  <2>2. CASE queue' = Append(queue, Error(c)) /\ modem' = modem
    BY <1>4, <1>7, <2>2 DEF c
  <2>3. CASE /\ Powered(modem[m])
             /\ modem' = [modem EXCEPT ![m] = IF on THEN "online" ELSE "offline"]
             /\ queue' = queue \o <<p, f>>
    <3>1. /\ Says(<<p, f>>, {c}) /\ <<p, f>> \in Seq(Message)
          /\ \A B, G : Plain(B) /\ Plain(G) =>
               /\ Has(<<p, f>>, G) <=> p \in G
               /\ Covered(<<p, f>>, B, G) <=> p \notin B
      BY <1>8, <2>3
    <3> DEFINE es == <<p, f>>
    <3>2. es \in Seq(Message) /\ Says(es, {c})
          /\ \A B, G : Plain(B) /\ Plain(G) =>
               /\ Has(es, G) <=> p \in G
               /\ Covered(es, B, G) <=> p \notin B
      BY <3>1
    <3> HIDE DEF es
    <3> USE <3>2 DEF c, m, p
    <3> WITNESS o \in Alive, on \in BOOLEAN, es \in Seq(Message)
    <3> QED
      BY <2>3, <3>2
  <2> QED
    BY <1>5, <2>1, <2>2, <2>3

LEMMA FailSays ==
    ASSUME CallsInv, NEW c \in Call, Fail(c)
    PROVE  Says(<<Error(c)>>, {c}) /\ Error(c) \in Dull
<1>1. /\ Error(c) \in Message /\ Error(c).msg = "Reply" /\ Error(c).call = c
      /\ Error(c) \in Dull
  BY ErrorMade DEF Dull
<1>2. c \in calls /\ queue' = Append(queue, Error(c)) /\ calls' = calls \ {c}
  BY DEF Fail
<1> QED
  BY <1>1, <1>2, SaysReply
-----------------------------------------------------------------------------
(* What urfkilld sends, and the objects and calls it leaves.               *)

LEMMA SameTracked ==
    ASSUME NEW obj, NEW now, NEW cs, NEW q, Tracked(obj, cs, q), SameCalls(obj, now)
    PROVE  Tracked(now, cs, q)
BY DEF Tracked, SameCalls

\* The messages that wait are those of q, but for what is dull.
SentOn(q) ==
    /\ \A B, G : Plain(B) /\ Plain(G) =>
         /\ Has(queue', G) <=> Has(q, G)
         /\ Covered(queue', B, G) <=> Covered(q, B, G)
    /\ calls \subseteq calls'
    /\ ~ running => calls' = calls

LEMMA NotSent == ASSUME NEW q, queue' = q, calls' = calls PROVE SentOn(q)
BY DEF SentOn

LEMMA SendEffect ==
    ASSUME NEW N \in SUBSET Call, NEW reached, NEW q \in Seq(Message), Send(N, reached, q),
           reached => running
    PROVE  SentOn(q)
<1>1. CASE reached /\ calls' = calls \cup N /\ queue' = q
  BY <1>1 DEF SentOn
<1>2. CASE calls' = calls /\ queue' = q \o Errors(N)
  <2>1. Errors(N) \in Seq(Message)
    BY ErrorsSent
  <2>2. ASSUME NEW B, NEW G, Plain(B), Plain(G)
        PROVE  /\ Has(queue', G) <=> Has(q, G)
               /\ Covered(queue', B, G) <=> Covered(q, B, G)
    <3>1. ~ Has(Errors(N), G) /\ Covered(Errors(N), B, G)
      BY <2>2, ErrorsDull
    <3> QED
      BY <1>2, <2>1, <3>1, Sent
  <2> QED
    BY <1>2, <2>2 DEF SentOn
<1> QED
  BY <1>1, <1>2 DEF Send, Errors

LEMMA SoftSent ==
    ASSUME NEW obj, Well(obj), NEW os \in SUBSET (DOMAIN obj), NEW q \in Seq(Message),
           set_soft(os, obj, q)
    PROVE  SentOn(q)
<1> DEFINE free == {o \in os : ~ obj[o].pending}
<1>1. PICK on \in BOOLEAN : Send({SetProperty(o, on) : o \in free}, Known(q), q)
  BY DEF set_soft
<1> DEFINE N == {SetProperty(o, on) : o \in free}
<1>2. N \in SUBSET Call
  BY CallMade DEF Well
<1>3. Send(N, Known(q), q)
  BY <1>1
<1> HIDE DEF N, free
<1>4. Known(q) => running
  BY DEF Known
<1> QED
  BY <1>2, <1>3, <1>4, SendEffect

\* What is left of the objects obj: some are gone, those of os hear their Powered.
Hears(obj, os, value) ==
    /\ DOMAIN object' \subseteq DOMAIN obj
    /\ \A o \in DOMAIN object' :
         /\ object'[o].modem = obj[o].modem /\ object'[o].index = obj[o].index
         /\ object'[o].Online = obj[o].Online
         /\ object'[o].Powered = IF o \in os THEN {value} ELSE obj[o].Powered

LEMMA PoweredDone ==
    ASSUME NEW obj, Well(obj), NEW os \in SUBSET (DOMAIN obj), NEW value \in BOOLEAN,
           NEW q \in Seq(Message), calls \subseteq Call, Tracked(obj, calls, q),
           list \subseteq DOMAIN obj, devices \subseteq DOMAIN obj,
           update_powered(os, obj, value, q)
    PROVE  /\ Tracked(object', calls', queue') /\ Well(object')
           /\ queue' \in Seq(Message) /\ calls' \subseteq Call
           /\ SentOn(q) /\ Hears(obj, os, value)
           /\ list \subseteq DOMAIN object' /\ devices' \subseteq DOMAIN object'
           /\ devices' = IF value
                         THEN devices \cup {o \in PoweredSignals(os, obj, TRUE) :
                                              \A d \in devices : obj[d].index # obj[o].index}
                         ELSE devices \ PoweredSignals(os, obj, FALSE)
<1> DEFINE signals == PoweredSignals(os, obj, value)
           known == [o \in DOMAIN obj |-> IF o \in os
                                          THEN [obj[o] EXCEPT !.Powered = {value}]
                                          ELSE obj[o]]
           new == {o \in signals : \A d \in devices : obj[d].index # obj[o].index}
<1>1. signals \subseteq os /\ new \subseteq os /\ new \in SUBSET DOMAIN known
  BY DEF PoweredSignals
<1>2. DOMAIN known = DOMAIN obj
  OBVIOUS
<1>3. ASSUME NEW o \in DOMAIN obj
      PROVE  /\ known[o] \in Object
             /\ known[o].modem = obj[o].modem /\ known[o].index = obj[o].index
             /\ known[o].Online = obj[o].Online
             /\ known[o].asking = obj[o].asking /\ known[o].pending = obj[o].pending
             /\ known[o].Powered = IF o \in os THEN {value} ELSE obj[o].Powered
  <2>1. obj[o] \in Object
    BY DEF Well
  <2>2. known[o] = IF o \in os THEN [obj[o] EXCEPT !.Powered = {value}] ELSE obj[o]
    OBVIOUS
  <2>3. {value} \in Property
    BY DEF Property
  <2> HIDE DEF known
  <2> QED
    BY <2>1, <2>2, <2>3 DEF Object
<1>4. Well(known)
  <2>1. known = [o \in DOMAIN known |-> known[o]]
    OBVIOUS
  <2> HIDE DEF known
  <2> QED
    BY <1>2, <1>3, <2>1 DEF Well
<1>5. SameCalls(obj, known)
  BY <1>2, <1>3 DEF SameCalls
<1>6. \/ /\ value
         /\ devices' = devices \cup new
         /\ set_soft(new, known, q)
      \/ /\ ~ value
         /\ devices' = devices \ signals
         /\ object' = dispose(known, list, devices')
         /\ queue' = q
         /\ UNCHANGED calls
  BY DEF update_powered
<1> HIDE DEF known, new, signals
<1>7. Tracked(known, calls, q)
  BY <1>5, SameTracked
<1>8. CASE value /\ devices' = devices \cup new /\ set_soft(new, known, q)
  <2>1. /\ Tracked(object', calls', queue') /\ Well(object')
        /\ queue' \in Seq(Message) /\ calls' \subseteq Call
        /\ DOMAIN object' = DOMAIN known
        /\ \A o \in DOMAIN known :
             \E b \in BOOLEAN : object'[o] = [known[o] EXCEPT !.pending = b]
    BY <1>1, <1>4, <1>7, <1>8, SoftSet
  <2>2. SentOn(q)
    BY <1>1, <1>4, <1>8, SoftSent
  <2>3. Hears(obj, os, value)
    <3>1. ASSUME NEW o \in DOMAIN known
          PROVE  /\ object'[o].modem = known[o].modem /\ object'[o].index = known[o].index
                 /\ object'[o].Online = known[o].Online
                 /\ object'[o].Powered = known[o].Powered
      BY <1>2, <1>3, <2>1 DEF Object
    <3> QED
      BY <1>2, <1>3, <2>1, <3>1 DEF Hears
  <2>4. devices' \subseteq DOMAIN object' /\ list \subseteq DOMAIN object'
    BY <1>1, <1>2, <1>8, <2>1
  <2>5. value = TRUE
    BY <1>8
  <2> QED
    BY <1>8, <2>1, <2>2, <2>3, <2>4, <2>5 DEF new, signals
<1>9. CASE /\ ~ value
           /\ devices' = devices \ signals
           /\ object' = dispose(known, list, devices')
           /\ queue' = q
           /\ UNCHANGED calls
  <2>1. /\ Tracked(object', calls, q) /\ Well(object')
        /\ DOMAIN object' \subseteq DOMAIN known
        /\ \A o \in DOMAIN object' : object'[o] = known[o]
        /\ \A o \in DOMAIN known : o \in list \cup devices' => o \in DOMAIN object'
    <3> DEFINE d == devices'
               now == dispose(known, list, d)
    <3>1. object' = now /\ d = devices'
      BY <1>9
    <3> HIDE DEF d
    <3>2. /\ Tracked(now, calls, q) /\ Well(now)
          /\ DOMAIN now \subseteq DOMAIN known
          /\ \A o \in DOMAIN now : now[o] = known[o]
          /\ \A o \in DOMAIN known : o \in list \cup d => o \in DOMAIN now
      BY <1>4, <1>7, Disposed
    <3> QED
      BY <3>1, <3>2
  <2>2. SentOn(q)
    BY <1>9, NotSent
  <2>3. Hears(obj, os, value)
    BY <1>2, <1>3, <2>1 DEF Hears
  <2>4. devices' \subseteq DOMAIN object' /\ list \subseteq DOMAIN object'
    BY <1>2, <1>9, <2>1
  <2>5. value = FALSE
    BY <1>9
  <2> QED
    BY <1>9, <2>1, <2>2, <2>3, <2>4, <2>5 DEF signals
<1> QED
  BY <1>6, <1>8, <1>9
\* The objects that are made for the modems ms: one for each, that nobody knew and
\* that asks oFono for its properties.
Makes(ms, ids) ==
    /\ ids \subseteq Objects \ Alive
    /\ DOMAIN object' = Alive \cup ids
    /\ \A o \in Alive : object'[o] = object[o]
    /\ \A o \in ids :
         /\ object'[o] \in Object /\ object'[o].modem \in ms
         /\ object'[o].Powered = {} /\ object'[o].asking /\ ~ object'[o].pending
         /\ running => GetProperties(o) \in calls'
    /\ \A m \in ms : \E o \in ids : object'[o].modem = m
    /\ \A a, b \in ids : object'[a].modem = object'[b].modem => a = b
    /\ \A a, b \in ids : object'[a].index = object'[b].index => a = b
    /\ ~ aborted' => \A a \in Alive, b \in ids : object[a].index # object'[b].index
    /\ list' = list \cup ids
    /\ modem_idx' \in Nat /\ aborted' \in BOOLEAN /\ devices' = devices

LEMMA ObjectsMade ==
    ASSUME Well(object), modem_idx \in Nat, calls \subseteq Call,
           NEW ms \in SUBSET Modems, NEW q \in Seq(Message),
           Tracked(object, calls, q), urf_device_ofono_new(ms, q)
    PROVE  \E ids : /\ Makes(ms, ids)
                    /\ SentOn(q) /\ queue' \in Seq(Message) /\ calls' \subseteq Call
                    /\ Well(object') /\ Tracked(object', calls', queue')
<1> DEFINE new == SetToSeq(ms)
           n == Len(new)
           free == SetToSeq(Objects \ Alive)
           ids == {free[i] : i \in 1..n}
           pos(o) == CHOOSE i \in 1..n : free[i] = o
           N == {GetProperties(o) : o \in ids}
           made(o) == [modem |-> new[pos(o)], index |-> modem_idx + pos(o) - 1,
                       Powered |-> {}, Online |-> {},
                       asking |-> TRUE, pending |-> FALSE, leaked |-> FALSE]
<1>1. /\ n <= Len(free)
      /\ object' = [o \in Alive \cup ids |-> IF o \in Alive THEN object[o] ELSE made(o)]
      /\ aborted' = \E o \in Alive : object[o].index \in modem_idx..(modem_idx + n - 1)
      /\ list' = list \cup ids
      /\ modem_idx' = modem_idx + n
      /\ Send(N, running, q)
      /\ devices' = devices
  BY DEF urf_device_ofono_new, Fresh
<1>2. /\ n \in Nat
      /\ \A i, j \in 1..n : new[i] = new[j] => i = j
      /\ \A m : m \in ms <=> \E i \in 1..n : new[i] = m
  <2>1. IsFiniteSet(ms)
    BY OfonoAssumption, FS_Subset DEF OfonoAssumption
  <2> QED
    BY <2>1, Listing
<1>3. /\ Len(free) \in Nat
      /\ \A i, j \in 1..Len(free) : free[i] = free[j] => i = j
      /\ \A o : o \in Objects \ Alive <=> \E i \in 1..Len(free) : free[i] = o
  <2>1. IsFiniteSet(Objects \ Alive)
    BY OfonoAssumption, FS_Subset DEF OfonoAssumption
  <2> QED
    BY <2>1, Listing
<1> HIDE DEF new, n, free
<1>4. \A i \in 1..n : i \in 1..Len(free)
  BY <1>1, <1>2, <1>3
<1>5. ids \subseteq Objects \ Alive
  BY <1>3, <1>4
<1>6. ASSUME NEW o \in ids PROVE pos(o) \in 1..n /\ free[pos(o)] = o
  <2>1. \E i \in 1..n : free[i] = o
    OBVIOUS
  <2> QED
    BY <2>1
<1>7. \A i \in 1..n : free[i] \in ids
  OBVIOUS
<1> HIDE DEF pos, ids
<1>8. \A i \in 1..n : pos(free[i]) = i
  BY <1>3, <1>4, <1>6, <1>7
<1>9. DOMAIN object' = Alive \cup ids
  BY <1>1
<1>10. \A o \in Alive : object'[o] = object[o]
  BY <1>1
<1>11. ASSUME NEW o \in ids
       PROVE  /\ object'[o] \in Object /\ object'[o].modem \in ms
              /\ object'[o].modem = new[pos(o)] /\ object'[o].index = modem_idx + pos(o) - 1
              /\ object'[o].Powered = {} /\ object'[o].asking /\ ~ object'[o].pending
              /\ object'[o].index \in modem_idx..(modem_idx + n - 1)
  <2>1. pos(o) \in 1..n /\ new[pos(o)] \in ms
    BY <1>2, <1>6
  <2>2. object'[o] = made(o)
    BY <1>1, <1>5
  <2>3. /\ modem_idx + pos(o) - 1 \in Nat /\ modem_idx + pos(o) - 1 \in modem_idx..(modem_idx + n - 1)
        /\ {} \in Property /\ new[pos(o)] \in Modems
    BY <1>2, <2>1 DEF Property
  <2> QED
    BY <2>1, <2>2, <2>3 DEF Object
<1>12. \A a, b \in ids : pos(a) = pos(b) => a = b
  BY <1>6
<1>13. N \in SUBSET Call
  BY <1>5, CallMade
<1>14. Makes(ms, ids)
  <2>1. ASSUME NEW o \in ids, running PROVE GetProperties(o) \in calls'
    <3>1. calls' = calls \cup N
      BY <1>1, <2>1 DEF Send
    <3> QED
      BY <3>1
  <2>2. ASSUME NEW m \in ms PROVE \E o \in ids : object'[o].modem = m
    <3>1. PICK i \in 1..n : new[i] = m
      BY <1>2
    <3> QED
      BY <1>7, <1>8, <1>11, <3>1
  <2>3. ASSUME NEW a \in ids, NEW b \in ids, object'[a].modem = object'[b].modem
        PROVE  a = b
    <3>1. new[pos(a)] = new[pos(b)] /\ pos(a) \in 1..n /\ pos(b) \in 1..n
      BY <1>6, <1>11, <2>3
    <3>2. pos(a) = pos(b)
      BY <1>2, <3>1
    <3> QED
      BY <1>12, <3>2
  <2>4. \A a, b \in ids : object'[a].index = object'[b].index => a = b
    <3> SUFFICES ASSUME NEW a \in ids, NEW b \in ids, object'[a].index = object'[b].index
                 PROVE  a = b
      OBVIOUS
    <3>1. modem_idx + pos(a) - 1 = modem_idx + pos(b) - 1 /\ pos(a) \in Nat /\ pos(b) \in Nat
      BY <1>2, <1>6, <1>11
    <3>2. pos(a) = pos(b)
      BY <3>1
    <3> QED
      BY <1>12, <3>2
  <2>5. ~ aborted' => \A a \in Alive, b \in ids : object[a].index # object'[b].index
    BY <1>1, <1>11
  <2>6. modem_idx' \in Nat /\ aborted' \in BOOLEAN
    BY <1>1, <1>2
  <2> QED
    BY <1>1, <1>5, <1>9, <1>10, <1>11, <2>1, <2>2, <2>3, <2>4, <2>5, <2>6 DEF Makes
<1>15. Well(object')
  <2>1. DOMAIN object' \subseteq Objects
    BY <1>5, <1>9 DEF Well, Alive
  <2>2. \A o \in DOMAIN object' : object'[o] \in Object
    BY <1>9, <1>10, <1>11 DEF Well, Alive
  <2>3. object' = [o \in DOMAIN object' |-> object'[o]]
    BY <1>1
  <2> QED
    BY <2>1, <2>2, <2>3 DEF Well
<1>16. queue' \in Seq(Message) /\ calls' \subseteq Call
  BY <1>1, <1>13, SendTyped
<1>17. SentOn(q)
  BY <1>1, <1>13, SendEffect
<1>18. Tracked(object', calls', queue')
  <2> SUFFICES ASSUME NEW o \in Objects
               PROVE  /\ Alone(Asking(o), calls', queue') /\ Alone(Setting(o), calls', queue')
                      /\ Pending(Asking(o), calls', queue')
                         <=> o \in DOMAIN object' /\ object'[o].asking
                      /\ Pending(Setting(o), calls', queue')
                         <=> o \in DOMAIN object' /\ object'[o].pending
    BY DEF Tracked
  <2>1. /\ Alone(Asking(o), calls, q) /\ Alone(Setting(o), calls, q)
        /\ Pending(Asking(o), calls, q) <=> o \in Alive /\ object[o].asking
        /\ Pending(Setting(o), calls, q) <=> o \in Alive /\ object[o].pending
    BY DEF Tracked, Alive
  <2>2. \A c \in N : c \notin Setting(o)
    BY CallsApart
  <2>3. /\ (\E c \in N : c \in Asking(o)) <=> o \in ids
        /\ \A c, d \in N : c \in Asking(o) /\ d \in Asking(o) => c = d
    BY <1>5, CallsApart DEF Asking
  <2>4. o \in ids => ~ Pending(Asking(o), calls, q)
    BY <1>5, <2>1
  <2> HIDE DEF N
  <2>5. GetModems \notin Asking(o) /\ GetModems \notin Setting(o)
    BY CallsApart
  <2>6. /\ Alone(Setting(o), calls', queue')
        /\ Pending(Setting(o), calls', queue') <=> Pending(Setting(o), calls, q)
    BY <1>1, <1>13, <2>1, <2>2, <2>5, Sends
  <2>7. /\ Alone(Asking(o), calls', queue')
        /\ Pending(Asking(o), calls', queue') <=> Pending(Asking(o), calls, q) \/ o \in ids
    BY <1>1, <1>13, <2>1, <2>3, <2>4, <2>5, Sends
  <2> QED
    BY <1>5, <1>9, <1>10, <1>11, <2>1, <2>6, <2>7
<1> QED
  BY <1>14, <1>15, <1>16, <1>17, <1>18
-----------------------------------------------------------------------------
(* What the handlers do.  e is the message they handle, q those behind it. *)

AnswerRead(x, q) ==
    /\ x \in Alive
    /\ \A now : /\ DOMAIN now = Alive
                /\ \A o \in Alive : /\ now[o].pending = object[o].pending
                                    /\ now[o].asking <=> object[o].asking /\ o # x
                => Tracked(now, calls, q)
SetRead(x, q) ==
    /\ x \in Alive
    /\ \A now : /\ DOMAIN now = Alive
                /\ \A o \in Alive : /\ now[o].asking = object[o].asking
                                    /\ now[o].pending <=> object[o].pending /\ o # x
                => Tracked(now, calls, q)

LEMMA ReadTracked ==
    ASSUME CallsInv, queue # <<>>, NEW e, e = Head(queue), NEW q, q = Tail(queue)
    PROVE  /\ e \in Message /\ q \in Seq(Message)
           /\ e.msg # "Reply" \/ e.call.call = "GetModems" => Tracked(object, calls, q)
           /\ e.msg = "Reply" /\ e.call.call = "GetProperties" => AnswerRead(e.call.obj, q)
           /\ e.msg = "Reply" /\ e.call.call = "SetProperty" => SetRead(e.call.obj, q)
<1>1. queue \in Seq(Message) /\ Tracked(object, calls, queue)
  BY DEF CallsInv, Shape
<1>2. e \in Message /\ q \in Seq(Message)
  BY <1>1, Read
<1>3. ASSUME NEW C, Alone(C, calls, queue)
      PROVE  /\ Alone(C, calls, q)
             /\ Pending(C, calls, q) <=> Pending(C, calls, queue) /\ e \notin RepliesTo(C)
  BY <1>1, <1>3, Handled
<1>4. ASSUME NEW o \in Objects
      PROVE  /\ Alone(Asking(o), calls, q) /\ Alone(Setting(o), calls, q)
             /\ Pending(Asking(o), calls, q)
                <=> (o \in Alive /\ object[o].asking) /\ e \notin RepliesTo(Asking(o))
             /\ Pending(Setting(o), calls, q)
                <=> (o \in Alive /\ object[o].pending) /\ e \notin RepliesTo(Setting(o))
  <2>1. Alone(Asking(o), calls, queue) /\ Alone(Setting(o), calls, queue)
    BY <1>1 DEF Tracked
  <2>2. /\ Pending(Asking(o), calls, queue) <=> o \in Alive /\ object[o].asking
        /\ Pending(Setting(o), calls, queue) <=> o \in Alive /\ object[o].pending
    BY <1>1 DEF Tracked, Alive
  <2> QED
    BY <1>3, <2>1, <2>2
<1>5. ASSUME NEW C
      PROVE  e \in RepliesTo(C) <=> e.msg = "Reply" /\ e.call \in C
  BY <1>2 DEF RepliesTo
<1>6. \A o \in Alive : o \in Objects
  BY DEF CallsInv, Shape, Well, Alive
<1>7. ASSUME e.msg # "Reply" \/ e.call.call = "GetModems"
      PROVE  Tracked(object, calls, q)
  <2>1. ASSUME NEW o \in Objects, e.msg = "Reply"
        PROVE  e.call \notin Asking(o) /\ e.call \notin Setting(o)
    BY <1>7, <2>1, CallMade DEF Asking, Setting
  <2> QED
    BY <1>4, <1>5, <2>1 DEF Tracked, Alive
<1>8. ASSUME e.msg = "Reply", e.call.call = "GetProperties"
      PROVE  AnswerRead(e.call.obj, q)
  <2>1. e.call \in Call
    BY <1>2, <1>8, MessageCases
  <2>2. e.call.obj \in Objects /\ e.call = GetProperties(e.call.obj)
    BY <1>8, <2>1, CallCases
  <2> DEFINE x == e.call.obj
  <2>3. ASSUME NEW o \in Objects
        PROVE  e.call \notin Setting(o) /\ (e.call \in Asking(o) <=> o = x)
    BY <2>2, <2>3, CallsApart
  <2>4. x \in Alive
    <3>1. Has(queue, RepliesTo(Asking(x)))
      BY <1>1, <1>2, <1>5, <1>8, <2>2, <2>3, Read
    <3> QED
      BY <1>1, <2>2, <3>1 DEF Tracked, Pending, Alive
  <2> HIDE DEF x
  <2>5. ASSUME NEW now, DOMAIN now = Alive,
               \A o \in Alive : /\ now[o].pending = object[o].pending
                                /\ now[o].asking <=> object[o].asking /\ o # x
        PROVE  Tracked(now, calls, q)
    BY <1>4, <1>5, <1>8, <2>3, <2>5 DEF Tracked
  <2> QED
    BY <2>4, <2>5 DEF x, AnswerRead
<1>9. ASSUME e.msg = "Reply", e.call.call = "SetProperty"
      PROVE  SetRead(e.call.obj, q)
  <2>1. e.call \in Call
    BY <1>2, <1>9, MessageCases
  <2>2. /\ e.call.obj \in Objects /\ e.call.online \in BOOLEAN
        /\ e.call = SetProperty(e.call.obj, e.call.online)
    BY <1>9, <2>1, CallCases
  <2> DEFINE x == e.call.obj
  <2>3. ASSUME NEW o \in Objects
        PROVE  e.call \notin Asking(o) /\ (e.call \in Setting(o) <=> o = x)
    BY <2>2, <2>3, CallsApart
  <2>4. x \in Alive
    <3>1. Has(queue, RepliesTo(Setting(x)))
      BY <1>1, <1>2, <1>5, <1>9, <2>2, <2>3, Read
    <3> QED
      BY <1>1, <2>2, <3>1 DEF Tracked, Pending, Alive
  <2> HIDE DEF x
  <2>5. ASSUME NEW now, DOMAIN now = Alive,
               \A o \in Alive : /\ now[o].asking = object[o].asking
                                /\ now[o].pending <=> object[o].pending /\ o # x
        PROVE  Tracked(now, calls, q)
    BY <1>4, <1>5, <1>9, <2>3, <2>5 DEF Tracked
  <2> QED
    BY <2>4, <2>5 DEF x, SetRead
<1> QED
  BY <1>2, <1>7, <1>8, <1>9

\* The cancellable makes the proxies in the making stale ones and nothing else.
Staled(q) == [i \in DOMAIN q |-> IF q[i].msg = "ProxyReady" THEN ProxyReady(TRUE) ELSE q[i]]
Proxyless(G) == \A s \in BOOLEAN : G \cap Ready(s) = {}

LEMMA StaleKeeps ==
    ASSUME NEW q \in Seq(Message)
    PROVE  /\ Staled(q) \in Seq(Message)
           /\ \A G : Proxyless(G) => (Has(Staled(q), G) <=> Has(q, G))
           /\ \A B, G : Proxyless(B) /\ Proxyless(G) =>
                          (Covered(Staled(q), B, G) <=> Covered(q, B, G))
           /\ \A B : Proxyless(B) => (Single(Staled(q), B) <=> Single(q, B))
<1> DEFINE s == Staled(q)
<1>1. /\ Len(q) \in Nat /\ DOMAIN q = 1..Len(q)
      /\ \A i \in 1..Len(q) : q[i] \in Message
  BY LenProperties, ElementOfSeq
<1>2. /\ ProxyReady(TRUE) \in Message
      /\ ProxyReady(TRUE).msg = "ProxyReady" /\ ProxyReady(TRUE).stale = TRUE
  BY MessageMade
<1>3. s \in [1..Len(q) -> Message]
  BY <1>1, <1>2 DEF Staled
<1>4. \A i \in 1..Len(q) : s[i] = IF q[i].msg = "ProxyReady" THEN ProxyReady(TRUE) ELSE q[i]
  BY <1>1 DEF Staled
<1> HIDE DEF s
<1>5. s \in Seq(Message) /\ Len(s) = Len(q)
  BY <1>1, <1>3, SeqDef, LenProperties
<1>6. ASSUME NEW G, Proxyless(G), NEW i \in 1..Len(q) PROVE s[i] \in G <=> q[i] \in G
  <2>1. CASE q[i].msg = "ProxyReady"
    <3>1. q[i].stale \in BOOLEAN
      BY <1>1, <2>1, MessageCases
    <3>2. q[i] \in Ready(q[i].stale) /\ s[i] \in Ready(TRUE)
      BY <1>1, <1>2, <1>4, <2>1 DEF Ready
    <3> QED
      BY <1>6, <3>1, <3>2 DEF Proxyless
  <2>2. CASE q[i].msg # "ProxyReady"
    BY <1>4, <2>2
  <2> QED
    BY <2>1, <2>2
<1> QED
  <2>1. \A G : Proxyless(G) => (Has(s, G) <=> Has(q, G))
    BY <1>5, <1>6 DEF Has
  <2>2. \A B, G : Proxyless(B) /\ Proxyless(G) => (Covered(s, B, G) <=> Covered(q, B, G))
    BY <1>5, <1>6 DEF Covered
  <2>3. \A B : Proxyless(B) => (Single(s, B) <=> Single(q, B))
    BY <1>5, <1>6 DEF Single
  <2> QED
    BY <1>5, <2>1, <2>2, <2>3 DEF s
\* What a handler leaves is of its type, and the flags are those of the calls.
Settled ==
    /\ Tracked(object', calls', queue') /\ Well(object')
    /\ queue' \in Seq(Message) /\ calls' \subseteq Call
    /\ cancelled' \in BOOLEAN /\ proxy' \in [current : BOOLEAN, leaked : BOOLEAN]
    /\ list' \subseteq DOMAIN object' /\ devices' \subseteq DOMAIN object'
    /\ modem_idx' \in Nat /\ aborted' \in BOOLEAN

LEMMA AppearedDone ==
    ASSUME CallsInv, NEW q \in Seq(Message), Tracked(object, calls, q), on_ofono_appeared(q)
    PROVE  /\ Settled
           /\ queue' = q \o <<ProxyReady(FALSE)>> /\ ProxyReady(FALSE) \in Ready(FALSE)
<1> DEFINE e == ProxyReady(FALSE)
<1>1. e \in Message /\ e.msg = "ProxyReady" /\ e.stale = FALSE
  BY MessageMade
<1>2. queue' = Append(q, e)
  BY DEF on_ofono_appeared
<1>3. /\ UNCHANGED <<calls, proxy, list, modem_idx, object, devices, aborted>>
      /\ cancelled' = FALSE
  BY DEF on_ofono_appeared
<1> HIDE DEF e
<1>4. queue' = q \o <<e>> /\ <<e>> \in Seq(Message) /\ Answered(<<e>>, {})
  BY <1>1, <1>2, Appended, MuteOne
<1>5. Tracked(object, calls \ {}, q \o <<e>>)
  BY <1>4, TrackedMoved DEF SameCalls
<1>6. calls \ {} = calls /\ q \o <<e>> \in Seq(Message)
  BY <1>4, Sent
<1>7. Settled
  BY <1>3, <1>4, <1>5, <1>6 DEF Settled, CallsInv, Shape, Alive
<1> QED
  BY <1>1, <1>4, <1>7 DEF e, Ready

\* The objects that are left are as they were.
Fewer == DOMAIN object' \subseteq Alive /\ \A o \in DOMAIN object' : object'[o] = object[o]

\* What waits is q but for proxies and what is dull.
SentMute(q) ==
    \A B, G : Plain(B) /\ Plain(G) /\ Proxyless(B) /\ Proxyless(G) =>
        /\ Has(queue', G) <=> Has(q, G)
        /\ Covered(queue', B, G) <=> Covered(q, B, G)

LEMMA VanishedDone ==
    ASSUME CallsInv, NEW q \in Seq(Message), Tracked(object, calls, q), on_ofono_vanished(q)
    PROVE  Settled /\ SentMute(q) /\ Fewer /\ list' = {}
<1> DEFINE s == Staled(q)
           D == calls \cap {GetModems}
           ms == IF GetModems \in calls THEN <<Error(GetModems)>> ELSE <<>>
           d == devices \ list
           now == dispose(object, {}, d)
<1>1. /\ proxy' = [proxy EXCEPT !.current = FALSE]
      /\ cancelled' = TRUE /\ list' = {} /\ devices' = d /\ modem_idx' = 0
      /\ aborted' = aborted /\ object' = dispose(object, {}, devices')
      /\ calls' = calls \ {GetModems} /\ queue' = s \o ms
  BY DEF on_ofono_vanished, cancel, Staled
<1>2. object' = now /\ calls' = calls \ D
  BY <1>1
<1>3. /\ Error(GetModems) \in Message /\ Error(GetModems).msg = "Reply"
      /\ Error(GetModems).call = GetModems /\ Error(GetModems) \in Dull
  BY ErrorMade, CallMade DEF Dull
<1>4. /\ ms \in Seq(Message) /\ Answered(ms, D)
      /\ \A G : Plain(G) => ~ Has(ms, G)
  <2>1. CASE GetModems \in calls
    <3>1. ms = <<Error(GetModems)>> /\ D = {GetModems}
      BY <2>1
    <3>2. /\ <<Error(GetModems)>> \in Seq(Message)
          /\ Answered(<<Error(GetModems)>>, {GetModems})
      BY <1>3, AnswerOne
    <3>3. \A G : Plain(G) => ~ Has(<<Error(GetModems)>>, G)
      BY <1>3, One DEF Plain
    <3> QED
      BY <3>1, <3>2, <3>3
  <2>2. CASE GetModems \notin calls
    <3>1. ms = <<>> /\ D = {}
      BY <2>2
    <3> QED
      BY <3>1, NothingSent, None
  <2> QED
    BY <2>1, <2>2
<1> HIDE DEF ms, d, s
<1>5. s \in Seq(Message)
  BY StaleKeeps DEF s
<1>6. Tracked(object, calls, s)
  <2>1. ASSUME NEW C PROVE Proxyless(RepliesTo(C))
    BY DEF Proxyless, RepliesTo, Ready
  <2>2. ASSUME NEW C
        PROVE  /\ Has(s, RepliesTo(C)) <=> Has(q, RepliesTo(C))
               /\ Single(s, RepliesTo(C)) <=> Single(q, RepliesTo(C))
    BY <2>1, StaleKeeps DEF s
  <2>3. ASSUME NEW C
        PROVE  /\ Alone(C, calls, s) <=> Alone(C, calls, q)
               /\ Pending(C, calls, s) <=> Pending(C, calls, q)
    BY <2>2 DEF Alone, Pending
  <2> QED
    BY <2>3 DEF Tracked
<1>7. Well(object) /\ proxy \in [current : BOOLEAN, leaked : BOOLEAN] /\ devices \subseteq Alive
      /\ calls \subseteq Call
  BY DEF CallsInv, Shape
<1>8. /\ Tracked(now, calls, s) /\ Well(now)
      /\ DOMAIN now \subseteq DOMAIN object
      /\ \A o \in DOMAIN now : now[o] = object[o]
      /\ \A o \in DOMAIN object : o \in {} \cup d => o \in DOMAIN now
  BY <1>6, <1>7, Disposed
<1>9. ASSUME NEW B, NEW G, Plain(B), Plain(G), Proxyless(B), Proxyless(G)
      PROVE  /\ Has(queue', G) <=> Has(q, G)
             /\ Covered(queue', B, G) <=> Covered(q, B, G)
  <2>1. Has(s, G) <=> Has(q, G)
    BY <1>9, StaleKeeps DEF s
  <2>3. Covered(s, B, G) <=> Covered(q, B, G)
    BY <1>9, StaleKeeps DEF s
  <2>2. ~ Has(ms, G) /\ Covered(ms, B, G)
    BY <1>4, <1>9, Free
  <2> QED
    <3>1. /\ Has(s \o ms, G) <=> Has(s, G) \/ Has(ms, G)
          /\ Covered(s \o ms, B, G)
             <=> Covered(ms, B, G) /\ (Covered(s, B, G) \/ Has(ms, G))
      BY <1>4, <1>5, Sent
    <3> QED
      BY <1>1, <2>1, <2>2, <2>3, <3>1
<1> HIDE DEF now, D
<1>10. Tracked(now, calls', queue')
  <2>1. SameCalls(now, now) /\ D \in SUBSET calls
    BY DEF SameCalls, D
  <2> QED
    <3>1. Tracked(now, calls \ D, s \o ms)
      BY <1>4, <1>5, <1>8, <2>1, TrackedMoved
    <3> QED
      BY <1>1, <1>2, <3>1
<1>11. queue' \in Seq(Message)
  BY <1>1, <1>4, <1>5, Sent
<1>12. Settled
  <2>1. devices' \subseteq DOMAIN now
    BY <1>1, <1>7, <1>8 DEF d, Alive
  <2>2. proxy' \in [current : BOOLEAN, leaked : BOOLEAN] /\ aborted' \in BOOLEAN
    BY <1>1, <1>7 DEF CallsInv, Shape
  <2> QED
    BY <1>1, <1>2, <1>7, <1>8, <1>10, <1>11, <2>1, <2>2 DEF Settled
<1> QED
  BY <1>1, <1>2, <1>8, <1>9, <1>12 DEF SentMute, Fewer, Alive

LEMMA ReadyDone ==
    ASSUME CallsInv, NEW q \in Seq(Message), Tracked(object, calls, q),
           NEW e, ofono_proxy_ready_cb(e, q)
    PROVE  /\ Settled /\ SentOn(q) /\ UNCHANGED <<object, list, devices, aborted>>
           /\ \/ (cancelled \/ e.stale) /\ cancelled' = cancelled
                 /\ proxy'.current = FALSE
                 /\ proxy'.leaked = (proxy.leaked \/ proxy.current)
              \/ /\ cancelled' = FALSE /\ proxy'.current = TRUE
                 /\ running => GetModems \in calls'
<1>1. /\ calls \subseteq Call /\ cancelled \in BOOLEAN
      /\ proxy \in [current : BOOLEAN, leaked : BOOLEAN]
  BY DEF CallsInv, Shape
<1>2. UNCHANGED <<object, list, modem_idx, devices, aborted>>
  BY DEF ofono_proxy_ready_cb
<1>3. ASSUME Tracked(object, calls', queue'), queue' \in Seq(Message), calls' \subseteq Call,
             cancelled' \in BOOLEAN, proxy' \in [current : BOOLEAN, leaked : BOOLEAN]
      PROVE  Settled
  BY <1>2, <1>3 DEF CallsInv, Shape, Settled, Alive
<1>4. CASE /\ cancelled \/ e.stale
           /\ proxy' = [current |-> FALSE, leaked |-> proxy.leaked \/ proxy.current]
           /\ queue' = q
           /\ UNCHANGED <<calls, cancelled>>
  BY <1>1, <1>2, <1>3, <1>4, NotSent
<1>5. CASE /\ proxy' = [current |-> TRUE, leaked |-> proxy.leaked \/ proxy.current]
           /\ cancelled' = FALSE
           /\ Send({GetModems}, Fresh, q)
  <2> DEFINE N == {GetModems}
  <2>1. N \in SUBSET Call
    BY CallMade
  <2>2. Send(N, running, q)
    BY <1>5 DEF Fresh
  <2>3. running => GetModems \in calls'
    BY <2>2 DEF Send
  <2>4. Tracked(object, calls', queue')
    <3> SUFFICES ASSUME NEW o \in Objects
                 PROVE  /\ Alone(Asking(o), calls', queue') /\ Alone(Setting(o), calls', queue')
                        /\ Pending(Asking(o), calls', queue') <=> Pending(Asking(o), calls, q)
                        /\ Pending(Setting(o), calls', queue') <=> Pending(Setting(o), calls, q)
      BY DEF Tracked
    <3>1. /\ GetModems \notin Asking(o) /\ GetModems \notin Setting(o)
          /\ \A c \in N : c \notin Asking(o) /\ c \notin Setting(o)
      BY CallsApart
    <3>2. Alone(Asking(o), calls, q) /\ Alone(Setting(o), calls, q)
      BY DEF Tracked
    <3> HIDE DEF N
    <3>3. /\ Alone(Asking(o), calls', queue')
          /\ Pending(Asking(o), calls', queue') <=> Pending(Asking(o), calls, q)
      BY <2>1, <2>2, <3>1, <3>2, Sends
    <3>4. /\ Alone(Setting(o), calls', queue')
          /\ Pending(Setting(o), calls', queue') <=> Pending(Setting(o), calls, q)
      BY <2>1, <2>2, <3>1, <3>2, Sends
    <3> QED
      BY <3>3, <3>4
  <2> HIDE DEF N
  <2>5. SentOn(q)
    BY <2>1, <2>2, SendEffect
  <2>6. queue' \in Seq(Message) /\ calls' \subseteq Call
    BY <1>1, <2>1, <2>2, SendTyped
  <2> QED
    BY <1>1, <1>2, <1>3, <1>5, <2>3, <2>4, <2>5, <2>6
<1> QED
  BY <1>4, <1>5 DEF ofono_proxy_ready_cb
LEMMA AddDone ==
    ASSUME CallsInv, NEW q \in Seq(Message), Tracked(object, calls, q),
           NEW ms \in SUBSET Modems, add_modem(ms, q), UNCHANGED <<cancelled, proxy>>
    PROVE  /\ Settled /\ SentOn(q)
           /\ \E ids : Makes({m \in ms : find_modem(m) = {}}, ids)
<1> DEFINE unknown == {m \in ms : find_modem(m) = {}}
<1>1. /\ Well(object) /\ modem_idx \in Nat /\ calls \subseteq Call
      /\ list \subseteq Alive /\ devices \subseteq Alive
      /\ cancelled \in BOOLEAN /\ proxy \in [current : BOOLEAN, leaked : BOOLEAN]
  BY DEF CallsInv, Shape
<1>2. urf_device_ofono_new(unknown, q) /\ unknown \in SUBSET Modems
  BY DEF add_modem
<1> HIDE DEF unknown
<1>3. PICK ids : /\ Makes(unknown, ids)
                 /\ SentOn(q) /\ queue' \in Seq(Message) /\ calls' \subseteq Call
                 /\ Well(object') /\ Tracked(object', calls', queue')
  BY <1>1, <1>2, ObjectsMade
<1>4. Settled
  BY <1>1, <1>3 DEF Settled, Makes
<1> QED
  BY <1>3, <1>4 DEF unknown

LEMMA RemoveDone ==
    ASSUME CallsInv, NEW q \in Seq(Message), Tracked(object, calls, q),
           NEW m \in Modems, remove_modem(m, q), UNCHANGED <<cancelled, proxy>>
    PROVE  /\ Settled /\ SentOn(q) /\ Fewer /\ UNCHANGED aborted
           /\ list' = list \ find_modem(m) /\ devices' = devices \ find_modem(m)
<1> DEFINE l == list \ find_modem(m)
           d == devices \ find_modem(m)
           now == dispose(object, l, d)
<1>1. /\ list' = l /\ devices' = d /\ object' = dispose(object, list', devices')
      /\ queue' = q /\ UNCHANGED <<calls, modem_idx, aborted>>
  BY DEF remove_modem
<1>2. object' = now
  BY <1>1
<1>3. /\ Well(object) /\ modem_idx \in Nat /\ calls \subseteq Call
      /\ list \subseteq Alive /\ devices \subseteq Alive /\ aborted \in BOOLEAN
      /\ cancelled \in BOOLEAN /\ proxy \in [current : BOOLEAN, leaked : BOOLEAN]
  BY DEF CallsInv, Shape
<1>4. l \subseteq list /\ d \subseteq devices
  OBVIOUS
<1> HIDE DEF l, d
<1>5. /\ Tracked(now, calls, q) /\ Well(now)
      /\ DOMAIN now \subseteq DOMAIN object
      /\ \A o \in DOMAIN now : now[o] = object[o]
      /\ \A o \in DOMAIN object : o \in l \cup d => o \in DOMAIN now
  BY <1>3, Disposed
<1> HIDE DEF now
<1>6. Fewer
  BY <1>2, <1>5 DEF Fewer, Alive
<1>7. l \subseteq DOMAIN now /\ d \subseteq DOMAIN now
  BY <1>3, <1>4, <1>5 DEF Alive
<1>8. Tracked(object', calls', queue')
  BY <1>1, <1>2, <1>5
<1>9. Settled
  BY <1>1, <1>2, <1>3, <1>5, <1>7, <1>8 DEF Settled
<1>10. SentOn(q)
  BY <1>1, NotSent
<1> QED
  BY <1>1, <1>6, <1>9, <1>10 DEF l, d

\* An object hears of a property by a signal or by the answer it asked for.
Of(x, p)      == IF p = "Powered" THEN x.Powered ELSE x.Online
Told(e, o, p) == e \in Signal(object[o].modem, p) \cup Answer(o)
Value(e, p)   == IF e.msg = "Reply" THEN Val(p, e.state) ELSE e.value

Hearing(e) ==
    /\ DOMAIN object' \subseteq Alive
    /\ \A o \in DOMAIN object' :
         /\ object'[o].modem = object[o].modem
         /\ \A p \in Properties :
              Of(object'[o], p) = IF Told(e, o, p) THEN {Value(e, p)} ELSE Of(object[o], p)

\* No two objects have one path; the arbitrator has the modems of the list that are
\* known to be powered.
Had(l, devs, obj) ==
    /\ \A a, b \in DOMAIN obj : obj[a].index = obj[b].index => a = b
    /\ \A o \in l : o \in devs <=> obj[o].Powered = {TRUE}

LEMMA PoweredHad ==
    ASSUME NEW obj, Well(obj), NEW os \in SUBSET (DOMAIN obj), NEW value \in BOOLEAN,
           list \subseteq DOMAIN obj, devices \subseteq DOMAIN obj, Had(list, devices, obj),
           Hears(obj, os, value),
           list \subseteq DOMAIN object', devices' \subseteq DOMAIN object',
           devices' = IF value
                      THEN devices \cup {o \in PoweredSignals(os, obj, TRUE) :
                                           \A d \in devices : obj[d].index # obj[o].index}
                      ELSE devices \ PoweredSignals(os, obj, FALSE)
    PROVE  Had(list, devices', object')
<1>1. \A a, b \in DOMAIN object' : object'[a].index = object'[b].index => a = b
  BY DEF Had, Hears
<1>2. ASSUME NEW o \in list PROVE o \in devices' <=> object'[o].Powered = {TRUE}
  <2>1. /\ o \in devices <=> obj[o].Powered = {TRUE}
        /\ object'[o].Powered = IF o \in os THEN {value} ELSE obj[o].Powered
        /\ o \in DOMAIN obj
    BY DEF Had, Hears
  <2>2. obj[o].Powered \in Property
    BY <2>1 DEF Well, Object
  <2>3. obj[o].Powered \in {{}, {TRUE}, {FALSE}}
    BY <2>2 DEF Property
  <2>4. CASE value = TRUE
    <3>1. o \in devices' <=> \/ o \in devices
                             \/ /\ o \in PoweredSignals(os, obj, TRUE)
                                /\ \A d \in devices : obj[d].index # obj[o].index
      BY <2>4
    <3>2. (\A d \in devices : obj[d].index # obj[o].index) <=> o \notin devices
      BY <2>1 DEF Had
    <3>3. o \in PoweredSignals(os, obj, TRUE)
          <=> o \in os /\ (obj[o].Powered = {FALSE} \/ obj[o].Powered = {})
      BY DEF PoweredSignals
    <3>4. o \in os => object'[o].Powered = {TRUE}
      BY <2>1, <2>4
    <3> QED
      BY <2>1, <2>3, <3>1, <3>2, <3>3, <3>4
  <2>5. CASE value = FALSE
    <3>1. o \in devices' <=> o \in devices /\ o \notin PoweredSignals(os, obj, FALSE)
      BY <2>5
    <3>2. o \in PoweredSignals(os, obj, FALSE) <=> o \in os /\ obj[o].Powered = {TRUE}
      BY DEF PoweredSignals
    <3>3. o \in os => object'[o].Powered = {FALSE}
      BY <2>1, <2>5
    <3>4. {FALSE} # {TRUE}
      OBVIOUS
    <3> QED
      BY <2>1, <3>1, <3>2, <3>3, <3>4
  <2> QED
    BY <2>4, <2>5
<1> QED
  BY <1>1, <1>2 DEF Had

\* What the arbitrator has stays as it should be.
HadKept == ~ aborted /\ Had(list, devices, object) => Had(list', devices', object')

LEMMA SignalDone ==
    ASSUME CallsInv, NEW q \in Seq(Message), Tracked(object, calls, q),
           NEW e \in Message, e.msg = "PropertyChanged", modem_signal_cb(e, q)
    PROVE  Settled /\ SentOn(q) /\ Hearing(e) /\ HadKept
<1>1. /\ Well(object) /\ modem_idx \in Nat /\ calls \subseteq Call
      /\ list \subseteq Alive /\ devices \subseteq Alive /\ aborted \in BOOLEAN
      /\ cancelled \in BOOLEAN /\ proxy \in [current : BOOLEAN, leaked : BOOLEAN]
  BY DEF CallsInv, Shape
<1>2. e.modem \in Modems /\ e.prop \in Properties /\ e.value \in BOOLEAN
  BY MessageCases DEF Properties
<1> DEFINE os == {o \in Alive : object[o].modem = e.modem}
<1>3. UNCHANGED <<cancelled, proxy, list, modem_idx, aborted>>
  BY DEF modem_signal_cb, managerVars
<1>4. ASSUME NEW o, NEW p \in Properties
      PROVE  /\ Told(e, o, p) <=> object[o].modem = e.modem /\ e.prop = p
             /\ Value(e, p) = e.value
  BY DEF Told, Value, Signal, Answer
<1>5. CASE e.prop = "Powered" /\ update_powered(os, object, e.value, q)
  <2>1. os \in SUBSET DOMAIN object
    BY DEF Alive
  <2> HIDE DEF os
  <2>2. /\ Tracked(object', calls', queue') /\ Well(object')
        /\ queue' \in Seq(Message) /\ calls' \subseteq Call
        /\ SentOn(q) /\ Hears(object, os, e.value)
        /\ list \subseteq DOMAIN object' /\ devices' \subseteq DOMAIN object'
        /\ devices' = IF e.value
                      THEN devices \cup {o \in PoweredSignals(os, object, TRUE) :
                                           \A d \in devices : object[d].index # object[o].index}
                      ELSE devices \ PoweredSignals(os, object, FALSE)
    BY <1>1, <1>2, <1>5, <2>1, PoweredDone DEF Alive
  <2>3. Settled
    BY <1>1, <1>3, <2>2 DEF Settled
  <2>4. HadKept
    BY <1>1, <1>2, <1>3, <2>1, <2>2, PoweredHad DEF HadKept, Alive
  <2>5. Hearing(e)
    <3>1. ASSUME NEW o \in DOMAIN object', NEW p \in Properties
          PROVE  Of(object'[o], p) = IF Told(e, o, p) THEN {Value(e, p)} ELSE Of(object[o], p)
      <4>1. /\ object'[o].Online = object[o].Online
            /\ object'[o].Powered = IF o \in os THEN {e.value} ELSE object[o].Powered
            /\ o \in Alive
        BY <2>2 DEF Hears, Alive
      <4>2. o \in os <=> object[o].modem = e.modem
        BY <4>1 DEF os
      <4> QED
        BY <1>4, <1>5, <4>1, <4>2 DEF Of, Properties
    <3> QED
      BY <2>2, <3>1 DEF Hearing, Hears, Alive
  <2> QED
    BY <2>2, <2>3, <2>4, <2>5
<1>6. CASE /\ e.prop = "Online"
           /\ object' = [o \in Alive |-> IF o \in os
                                         THEN [object[o] EXCEPT !.Online = {e.value}]
                                         ELSE object[o]]
           /\ queue' = q
           /\ UNCHANGED <<calls, devices>>
  <2>1. DOMAIN object' = Alive
    BY <1>6
  <2>2. ASSUME NEW o \in Alive
        PROVE  /\ object'[o] \in Object
               /\ object'[o].modem = object[o].modem /\ object'[o].index = object[o].index
               /\ object'[o].Powered = object[o].Powered
               /\ object'[o].asking = object[o].asking /\ object'[o].pending = object[o].pending
               /\ object'[o].Online = IF object[o].modem = e.modem THEN {e.value}
                                      ELSE object[o].Online
    <3>1. object[o] \in Object
      BY <1>1 DEF Well, Alive
    <3>2. object'[o] = IF o \in os THEN [object[o] EXCEPT !.Online = {e.value}] ELSE object[o]
      BY <1>6
    <3>3. {e.value} \in Property /\ (o \in os <=> object[o].modem = e.modem)
      BY <1>2 DEF Property
    <3> HIDE DEF os
    <3> QED
      BY <3>1, <3>2, <3>3 DEF Object
  <2>3. Well(object')
    <3>1. object' = [o \in Alive |-> object'[o]]
      BY <1>6
    <3> QED
      BY <1>1, <2>1, <2>2, <3>1 DEF Well, Alive
  <2>4. Tracked(object', calls', queue')
    <3> DEFINE now == object'
    <3>1. SameCalls(object, now)
      BY <2>1, <2>2 DEF SameCalls, Alive
    <3> HIDE DEF now
    <3>2. Tracked(now, calls, q)
      BY <3>1, SameTracked
    <3> QED
      BY <1>6, <3>2 DEF now
  <2>5. Settled
    BY <1>1, <1>3, <1>6, <2>1, <2>3, <2>4 DEF Settled
  <2>6. SentOn(q)
    BY <1>6, NotSent
  <2>7. devices' = devices /\ list' = list /\ e.prop = "Online"
    BY <1>3, <1>6
  <2>8. HadKept
    BY <1>1, <2>1, <2>2, <2>7 DEF HadKept, Had, Alive
  <2>9. Hearing(e)
    <3>1. ASSUME NEW o \in Alive, NEW p \in Properties
          PROVE  Of(object'[o], p) = IF Told(e, o, p) THEN {Value(e, p)} ELSE Of(object[o], p)
      BY <1>4, <2>2, <2>7 DEF Of, Properties
    <3> QED
      BY <2>1, <2>2, <3>1 DEF Hearing
  <2> QED
    BY <2>5, <2>6, <2>8, <2>9
<1> QED
  BY <1>5, <1>6 DEF modem_signal_cb
LEMMA AnswerDone ==
    ASSUME CallsInv, NEW e \in Message, NEW q \in Seq(Message), AnswerRead(e.call.obj, q),
           e.msg = "Reply", e.call.call = "GetProperties", get_properties_cb(e, q)
    PROVE  Settled /\ SentOn(q) /\ Hearing(e) /\ HadKept
<1> DEFINE o == e.call.obj
           obj == [object EXCEPT ![o].asking = FALSE]
           v == Powered(e.state)
           on == e.state = "online"
           told == [obj EXCEPT ![o].Online = {on}]
<1>1. /\ Well(object) /\ modem_idx \in Nat /\ calls \subseteq Call
      /\ list \subseteq Alive /\ devices \subseteq Alive /\ aborted \in BOOLEAN
      /\ cancelled \in BOOLEAN /\ proxy \in [current : BOOLEAN, leaked : BOOLEAN]
  BY DEF CallsInv, Shape
<1>2. /\ e \in Message /\ q \in Seq(Message) /\ o \in Alive
      /\ \A now : /\ DOMAIN now = Alive
                  /\ \A x \in Alive :
                       /\ now[x].pending = object[x].pending
                       /\ now[x].asking <=> object[x].asking /\ x # o
                  => Tracked(now, calls, q)
  BY DEF AnswerRead
<1>3. e.ok \in BOOLEAN /\ e.state \in States /\ e.call = GetProperties(o)
  <2>1. e.call \in Call /\ e.ok \in BOOLEAN /\ e.state \in States
    BY <1>2, MessageCases
  <2> QED
    BY <2>1, CallCases
<1>4. UNCHANGED <<cancelled, proxy, list, modem_idx, aborted>>
  BY DEF get_properties_cb, managerVars
<1>5. v \in BOOLEAN /\ on \in BOOLEAN /\ {on} \in Property
  <2>1. v \in BOOLEAN
    BY DEF Powered
  <2>2. on \in BOOLEAN
    OBVIOUS
  <2> HIDE DEF v, on
  <2> QED
    BY <2>1, <2>2 DEF Property
<1>6. ASSUME NEW x, NEW p \in Properties
      PROVE  /\ Told(e, x, p) <=> e.ok /\ x = o
             /\ Value(e, p) = IF p = "Powered" THEN v ELSE on
  <2>1. GetProperties(o) = GetProperties(x) <=> x = o
    BY CallMade
  <2>2. e \notin Signal(object[x].modem, p)
    BY DEF Signal
  <2>3. e \in Answer(x) <=> e.ok /\ x = o
    BY <1>2, <1>3, <2>1 DEF Answer
  <2> QED
    BY <2>2, <2>3 DEF Told, Value, Val
<1>7. \/ e.ok /\ update_powered({o}, told, v, q)
      \/ /\ ~ e.ok
         /\ object' = dispose(obj, list, devices)
         /\ queue' = q
         /\ UNCHANGED <<calls, devices>>
  BY DEF get_properties_cb
<1>8. DOMAIN obj = Alive /\ DOMAIN told = Alive
  BY DEF Alive
<1>9. ASSUME NEW x \in Alive
      PROVE  /\ obj[x] \in Object /\ obj[x].modem = object[x].modem
             /\ obj[x].index = object[x].index
             /\ obj[x].Powered = object[x].Powered /\ obj[x].Online = object[x].Online
             /\ obj[x].pending = object[x].pending
             /\ obj[x].asking <=> object[x].asking /\ x # o
  <2>1. object[x] \in Object
    BY <1>1 DEF Well, Alive
  <2>2. obj[x] = IF x = o THEN [object[x] EXCEPT !.asking = FALSE] ELSE object[x]
    BY DEF Alive
  <2> HIDE DEF obj, o
  <2> QED
    BY <2>1, <2>2 DEF Object
<1>10. ASSUME NEW x \in Alive
       PROVE  /\ told[x] \in Object /\ told[x].modem = obj[x].modem
              /\ told[x].index = obj[x].index
              /\ told[x].Powered = obj[x].Powered
              /\ told[x].Online = IF x = o THEN {on} ELSE obj[x].Online
              /\ told[x].pending = obj[x].pending
              /\ told[x].asking = obj[x].asking
  <2>1. obj[x] \in Object
    BY <1>9
  <2>2. told[x] = IF x = o THEN [obj[x] EXCEPT !.Online = {on}] ELSE obj[x]
    BY <1>8
  <2> HIDE DEF obj, o, told, on
  <2> QED
    BY <1>5, <2>1, <2>2 DEF Object
<1>11. obj = [x \in Alive |-> obj[x]] /\ told = [x \in Alive |-> told[x]]
  BY DEF Alive
<1> HIDE DEF obj, told, v, on, o
<1>12. Well(obj) /\ Well(told)
  BY <1>1, <1>8, <1>9, <1>10, <1>11 DEF Well, Alive
<1>13. Tracked(obj, calls, q)
  BY <1>2, <1>8, <1>9
<1>14. Tracked(told, calls, q)
  BY <1>2, <1>8, <1>9, <1>10
<1>15. CASE e.ok /\ update_powered({o}, told, v, q)
  <2>1. {o} \in SUBSET DOMAIN told /\ list \subseteq DOMAIN told /\ devices \subseteq DOMAIN told
    BY <1>1, <1>2, <1>8
  <2>2. /\ Tracked(object', calls', queue') /\ Well(object')
        /\ queue' \in Seq(Message) /\ calls' \subseteq Call
        /\ SentOn(q) /\ Hears(told, {o}, v)
        /\ list \subseteq DOMAIN object' /\ devices' \subseteq DOMAIN object'
        /\ devices' = IF v
                      THEN devices \cup {x \in PoweredSignals({o}, told, TRUE) :
                                           \A d \in devices : told[d].index # told[x].index}
                      ELSE devices \ PoweredSignals({o}, told, FALSE)
    BY <1>1, <1>2, <1>5, <1>12, <1>14, <1>15, <2>1, PoweredDone
  <2>3. Settled
    BY <1>1, <1>4, <2>2 DEF Settled
  <2>4. HadKept
    <3> SUFFICES ASSUME ~ aborted, Had(list, devices, object) PROVE Had(list, devices', object')
      BY <1>4 DEF HadKept
    <3>1. Had(list, devices, told)
      <4>1. \A x \in Alive : /\ told[x].index = object[x].index
                              /\ told[x].Powered = object[x].Powered
        BY <1>9, <1>10
      <4> QED
        BY <1>1, <1>8, <4>1 DEF Had, Alive
    <3> QED
      BY <1>5, <1>12, <2>1, <2>2, <3>1, PoweredHad
  <2>5. Hearing(e)
    <3>1. ASSUME NEW x \in DOMAIN object'
          PROVE  /\ x \in Alive /\ object'[x].modem = object[x].modem
                 /\ object'[x].Online = IF x = o THEN {on} ELSE object[x].Online
                 /\ object'[x].Powered = IF x = o THEN {v} ELSE object[x].Powered
      <4>1. /\ x \in DOMAIN told
            /\ object'[x].modem = told[x].modem
            /\ object'[x].Online = told[x].Online
            /\ object'[x].Powered = IF x \in {o} THEN {v} ELSE told[x].Powered
        BY <2>2 DEF Hears
      <4> QED
        <5>1. x \in Alive /\ (x \in {o} <=> x = o)
          BY <1>8, <4>1
        <5>2. /\ told[x].modem = object[x].modem /\ told[x].Powered = object[x].Powered
              /\ told[x].Online = IF x = o THEN {on} ELSE object[x].Online
          <6> HIDE DEF told, obj, on, v, o
          <6>1. /\ obj[x].modem = object[x].modem /\ obj[x].Powered = object[x].Powered
                /\ obj[x].Online = object[x].Online
            BY <1>9, <5>1
          <6> QED
            BY <1>10, <5>1, <6>1
        <5> QED
          BY <4>1, <5>1, <5>2
    <3>2. ASSUME NEW x \in DOMAIN object', NEW p \in Properties
          PROVE  Of(object'[x], p) = IF Told(e, x, p) THEN {Value(e, p)} ELSE Of(object[x], p)
      BY <1>6, <1>15, <3>1 DEF Of, Properties
    <3> QED
      BY <3>1, <3>2 DEF Hearing
  <2> QED
    BY <2>2, <2>3, <2>4, <2>5
<1>16. CASE /\ ~ e.ok
            /\ object' = dispose(obj, list, devices)
            /\ queue' = q
            /\ UNCHANGED <<calls, devices>>
  <2> DEFINE now == dispose(obj, list, devices)
  <2>1. /\ Tracked(now, calls, q) /\ Well(now)
        /\ DOMAIN now \subseteq DOMAIN obj
        /\ \A x \in DOMAIN now : now[x] = obj[x]
        /\ \A x \in DOMAIN obj : x \in list \cup devices => x \in DOMAIN now
    <3> HIDE DEF now
    <3>1. now = dispose(obj, list, devices)
      BY DEF now
    <3> QED
      BY <1>12, <1>13, <3>1, Disposed
  <2>2. object' = now
    BY <1>16
  <2> HIDE DEF now
  <2>3. Settled
    <3>1. list \subseteq DOMAIN now /\ devices \subseteq DOMAIN now
      BY <1>1, <1>8, <2>1
    <3>2. Tracked(object', calls', queue')
      BY <1>16, <2>1, <2>2
    <3>3. queue' = q /\ calls' = calls /\ devices' = devices
      BY <1>16
    <3> QED
      BY <1>1, <1>2, <1>4, <2>1, <2>2, <3>1, <3>2, <3>3 DEF Settled
  <2>4. SentOn(q)
    BY <1>16, NotSent
  <2>5. devices' = devices /\ list' = list /\ ~ e.ok
    BY <1>4, <1>16
  <2>6. ASSUME NEW x \in DOMAIN now
        PROVE  /\ x \in Alive /\ now[x].modem = object[x].modem
               /\ now[x].index = object[x].index
               /\ now[x].Powered = object[x].Powered /\ now[x].Online = object[x].Online
    BY <1>8, <1>9, <2>1
  <2>7. HadKept
    <3> SUFFICES ASSUME ~ aborted, Had(list, devices, object) PROVE Had(list, devices, now)
      BY <2>2, <2>5 DEF HadKept
    <3>1. list \subseteq DOMAIN now
      BY <1>1, <1>8, <2>1
    <3> QED
      BY <2>6, <3>1 DEF Had, Alive
  <2>8. Hearing(e)
    BY <1>6, <2>2, <2>5, <2>6 DEF Hearing, Of
  <2> QED
    BY <2>3, <2>4, <2>7, <2>8
<1> QED
  BY <1>7, <1>15, <1>16

LEMMA SetDone ==
    ASSUME CallsInv, NEW e \in Message, NEW q \in Seq(Message), SetRead(e.call.obj, q),
           e.msg = "Reply", e.call.call = "SetProperty", set_online_cb(e, q)
    PROVE  Settled /\ SentOn(q) /\ Hearing(e) /\ HadKept
<1> DEFINE o == e.call.obj
           obj == [object EXCEPT ![o].pending = FALSE]
           now == dispose(obj, list, devices)
<1>1. /\ Well(object) /\ modem_idx \in Nat /\ calls \subseteq Call
      /\ list \subseteq Alive /\ devices \subseteq Alive /\ aborted \in BOOLEAN
      /\ cancelled \in BOOLEAN /\ proxy \in [current : BOOLEAN, leaked : BOOLEAN]
  BY DEF CallsInv, Shape
<1>2. /\ e \in Message /\ q \in Seq(Message) /\ o \in Alive
      /\ \A n : /\ DOMAIN n = Alive
                /\ \A x \in Alive :
                     /\ n[x].asking = object[x].asking
                     /\ n[x].pending <=> object[x].pending /\ x # o
                => Tracked(n, calls, q)
  BY DEF SetRead
<1>3. /\ UNCHANGED <<cancelled, proxy, list, modem_idx, aborted, devices, calls>>
      /\ queue' = q /\ object' = now
  BY DEF set_online_cb, managerVars
<1>4. ASSUME NEW x, NEW p \in Properties PROVE ~ Told(e, x, p)
  <2>1. e.call # GetProperties(x)
    BY CallMade
  <2> QED
    BY <2>1 DEF Told, Signal, Answer
<1>5. DOMAIN obj = Alive
  BY DEF Alive
<1>6. ASSUME NEW x \in Alive
      PROVE  /\ obj[x] \in Object /\ obj[x].modem = object[x].modem
             /\ obj[x].index = object[x].index
             /\ obj[x].Powered = object[x].Powered /\ obj[x].Online = object[x].Online
             /\ obj[x].asking = object[x].asking
             /\ obj[x].pending <=> object[x].pending /\ x # o
  <2>1. object[x] \in Object
    BY <1>1 DEF Well, Alive
  <2>2. obj[x] = IF x = o THEN [object[x] EXCEPT !.pending = FALSE] ELSE object[x]
    BY DEF Alive
  <2> HIDE DEF obj, o, now
  <2> QED
    BY <2>1, <2>2 DEF Object
<1>7. obj = [x \in Alive |-> obj[x]]
  BY DEF Alive
<1> HIDE DEF obj, o
<1>8. Well(obj) /\ Tracked(obj, calls, q)
  BY <1>1, <1>2, <1>5, <1>6, <1>7 DEF Well, Alive
<1>9. /\ Tracked(now, calls, q) /\ Well(now)
      /\ DOMAIN now \subseteq DOMAIN obj
      /\ \A x \in DOMAIN now : now[x] = obj[x]
      /\ \A x \in DOMAIN obj : x \in list \cup devices => x \in DOMAIN now
  <2> HIDE DEF now
  <2>1. now = dispose(obj, list, devices)
    BY DEF now
  <2> QED
    BY <1>8, <2>1, Disposed
<1> HIDE DEF now
<1>10. Settled
  <2>1. list \subseteq DOMAIN now /\ devices \subseteq DOMAIN now
    BY <1>1, <1>5, <1>9
  <2>2. Tracked(object', calls', queue')
    BY <1>3, <1>9
  <2> QED
    BY <1>1, <1>2, <1>3, <1>9, <2>1, <2>2 DEF Settled
<1>11. SentOn(q)
  BY <1>3, NotSent
<1>12. ASSUME NEW x \in DOMAIN now
       PROVE  /\ x \in Alive /\ now[x].modem = object[x].modem
              /\ now[x].index = object[x].index
              /\ now[x].Powered = object[x].Powered /\ now[x].Online = object[x].Online
  BY <1>5, <1>6, <1>9
<1>13. HadKept
  <2> SUFFICES ASSUME ~ aborted, Had(list, devices, object) PROVE Had(list, devices, now)
    BY <1>3 DEF HadKept
  <2>1. list \subseteq DOMAIN now
    BY <1>1, <1>5, <1>9
  <2> QED
    BY <1>12, <2>1 DEF Had, Alive
<1>14. Hearing(e)
  BY <1>3, <1>4, <1>12 DEF Hearing, Of
<1> QED
  BY <1>10, <1>11, <1>13, <1>14
\* The seven things a dispatch can be.
Appears(e, q) ==
    /\ e \in Owner(TRUE)
    /\ queue' = q \o <<ProxyReady(FALSE)>> /\ ProxyReady(FALSE) \in Ready(FALSE)
    /\ cancelled' = FALSE /\ UNCHANGED <<calls, proxy, list, object, devices, aborted>>
Vanishes(e, q) ==
    /\ e \in Owner(FALSE)
    /\ SentMute(q) /\ Fewer /\ list' = {}
    /\ calls' = calls \ {GetModems} /\ UNCHANGED aborted
Connects(e, q) ==
    /\ e \in Ready(e.stale) /\ e.stale \in BOOLEAN
    /\ SentOn(q) /\ UNCHANGED <<object, list, devices, aborted>>
    /\ \/ /\ cancelled \/ e.stale
          /\ cancelled' = cancelled
          /\ proxy'.current = FALSE /\ proxy'.leaked = (proxy.leaked \/ proxy.current)
       \/ /\ cancelled' = FALSE /\ proxy'.current = TRUE
          /\ running => GetModems \in calls'
Adds(e, q) ==
    /\ e.msg = "ModemAdded" \/ (e.msg = "Reply" /\ e.call = GetModems)
    /\ proxy.current \/ proxy.leaked
    /\ SentOn(q) /\ UNCHANGED <<cancelled, proxy>>
    /\ \E ids : Makes({m \in Modems : e \in Naming(m) /\ find_modem(m) = {}}, ids)
Removes(e, q) ==
    /\ e.modem \in Modems /\ e \in Gone(e.modem)
    /\ SentOn(q) /\ Fewer /\ UNCHANGED <<cancelled, proxy, aborted>>
    /\ list' = list \ find_modem(e.modem) /\ devices' = devices \ find_modem(e.modem)
Ignores(e, q) ==
    /\ \/ e.msg \in {"ModemAdded", "ModemRemoved"} /\ ~ (proxy.current \/ proxy.leaked)
       \/ e.msg = "Reply" /\ e.call = GetModems /\ ~ (e.ok /\ proxy.current)
    /\ SentOn(q) /\ UNCHANGED <<cancelled, proxy, object, list, devices, aborted>>
Tells(e, q) ==
    /\ e.msg = "PropertyChanged" \/ (e.msg = "Reply" /\ e.call.call # "GetModems")
    /\ SentOn(q) /\ Hearing(e) /\ HadKept
    /\ UNCHANGED <<cancelled, proxy, list, aborted>>

Handles(e, q) ==
    \/ Appears(e, q) \/ Vanishes(e, q) \/ Connects(e, q) \/ Adds(e, q) \/ Removes(e, q)
    \/ Ignores(e, q) \/ Tells(e, q)

LEMMA DispatchDone ==
    ASSUME CallsInv, Dispatch
    PROVE  /\ queue # <<>> /\ ~ aborted
           /\ UNCHANGED <<running, modem, inputs, failed>>
           /\ Settled /\ Handles(Head(queue), Tail(queue))
<1> DEFINE e == Head(queue)
           q == Tail(queue)
<1>1. /\ queue # <<>> /\ ~ aborted
      /\ UNCHANGED <<running, modem, inputs, failed>>
      /\ \/ e.msg = "NameOwnerChanged" /\ e.up /\ on_ofono_appeared(q)
         \/ e.msg = "NameOwnerChanged" /\ ~ e.up /\ on_ofono_vanished(q)
         \/ e.msg = "ProxyReady" /\ ofono_proxy_ready_cb(e, q)
         \/ e.msg \in {"ModemAdded", "ModemRemoved"} /\ ofono_signal_cb(e, q)
         \/ e.msg = "PropertyChanged" /\ modem_signal_cb(e, q)
         \/ e.msg = "Reply" /\ e.call.call = "GetModems" /\ ofono_get_modems_cb(e, q)
         \/ e.msg = "Reply" /\ e.call.call = "GetProperties" /\ get_properties_cb(e, q)
         \/ e.msg = "Reply" /\ e.call.call = "SetProperty" /\ set_online_cb(e, q)
  BY DEF Dispatch
<1>2. /\ e \in Message /\ q \in Seq(Message)
      /\ e.msg # "Reply" \/ e.call.call = "GetModems" => Tracked(object, calls, q)
      /\ e.msg = "Reply" /\ e.call.call = "GetProperties" => AnswerRead(e.call.obj, q)
      /\ e.msg = "Reply" /\ e.call.call = "SetProperty" => SetRead(e.call.obj, q)
  BY <1>1, ReadTracked
<1> SUFFICES Settled /\ Handles(e, q)
  BY <1>1
<1> HIDE DEF e, q
<1>3. CASE e.msg = "NameOwnerChanged" /\ e.up /\ on_ofono_appeared(q)
  <2>1. Tracked(object, calls, q) /\ e.up \in BOOLEAN
    BY <1>2, <1>3, MessageCases
  <2>2. Settled /\ queue' = q \o <<ProxyReady(FALSE)>> /\ ProxyReady(FALSE) \in Ready(FALSE)
    BY <1>2, <1>3, <2>1, AppearedDone
  <2>3. e \in Owner(TRUE)
    BY <1>2, <1>3, <2>1 DEF Owner
  <2>4. Appears(e, q)
    BY <1>3, <2>2, <2>3 DEF Appears, on_ofono_appeared
  <2> QED
    BY <2>2, <2>4 DEF Handles
<1>4. CASE e.msg = "NameOwnerChanged" /\ ~ e.up /\ on_ofono_vanished(q)
  <2>1. Tracked(object, calls, q) /\ e.up \in BOOLEAN
    BY <1>2, <1>4, MessageCases
  <2>2. Settled /\ SentMute(q) /\ Fewer /\ list' = {}
    BY <1>2, <1>4, <2>1, VanishedDone
  <2>3. e \in Owner(FALSE)
    BY <1>2, <1>4, <2>1 DEF Owner
  <2>4. calls' = calls \ {GetModems} /\ UNCHANGED aborted
    BY <1>4 DEF on_ofono_vanished, cancel
  <2>5. Vanishes(e, q)
    BY <2>2, <2>3, <2>4 DEF Vanishes
  <2> QED
    BY <2>2, <2>5 DEF Handles
<1>5. CASE e.msg = "ProxyReady" /\ ofono_proxy_ready_cb(e, q)
  <2>1. Tracked(object, calls, q) /\ e.stale \in BOOLEAN
    BY <1>2, <1>5, MessageCases
  <2>2. /\ Settled /\ SentOn(q) /\ UNCHANGED <<object, list, devices, aborted>>
        /\ \/ (cancelled \/ e.stale) /\ cancelled' = cancelled
              /\ proxy'.current = FALSE
              /\ proxy'.leaked = (proxy.leaked \/ proxy.current)
           \/ /\ cancelled' = FALSE /\ proxy'.current = TRUE
              /\ running => GetModems \in calls'
    BY <1>2, <1>5, <2>1, ReadyDone
  <2>3. e \in Ready(e.stale)
    BY <1>2, <1>5 DEF Ready
  <2>4. Connects(e, q)
    BY <2>1, <2>2, <2>3 DEF Connects
  <2> QED
    BY <2>2, <2>4 DEF Handles
<1>6. ASSUME NEW ms \in SUBSET Modems, add_modem(ms, q), UNCHANGED <<cancelled, proxy>>,
             \A m \in Modems : m \in ms <=> e \in Naming(m),
             e.msg = "ModemAdded" \/ (e.msg = "Reply" /\ e.call = GetModems),
             proxy.current \/ proxy.leaked
      PROVE  Settled /\ Handles(e, q)
  <2>1. Tracked(object, calls, q)
    BY <1>2, <1>6, CallMade
  <2>2. Settled /\ SentOn(q) /\ \E ids : Makes({m \in ms : find_modem(m) = {}}, ids)
    BY <1>2, <1>6, <2>1, AddDone
  <2>3. {m \in ms : find_modem(m) = {}} = {m \in Modems : e \in Naming(m) /\ find_modem(m) = {}}
    BY <1>6
  <2>4. Adds(e, q)
    BY <1>6, <2>2, <2>3 DEF Adds
  <2> QED
    BY <2>2, <2>4 DEF Handles
<1>7. ASSUME Tracked(object, calls, q), queue' = q,
             UNCHANGED <<calls, object, list, modem_idx, devices, aborted, cancelled, proxy>>,
             \/ e.msg \in {"ModemAdded", "ModemRemoved"} /\ ~ (proxy.current \/ proxy.leaked)
             \/ e.msg = "Reply" /\ e.call = GetModems /\ ~ (e.ok /\ proxy.current)
      PROVE  Settled /\ Handles(e, q)
  <2>1. Settled
    BY <1>2, <1>7 DEF Settled, CallsInv, Shape, Alive
  <2>2. SentOn(q)
    BY <1>7, NotSent
  <2>3. Ignores(e, q)
    BY <1>7, <2>2 DEF Ignores
  <2> QED
    BY <2>1, <2>3 DEF Handles
<1>8. CASE e.msg \in {"ModemAdded", "ModemRemoved"} /\ ofono_signal_cb(e, q)
  <2>1. /\ Tracked(object, calls, q) /\ e.modem \in Modems
        /\ UNCHANGED <<cancelled, proxy>>
    BY <1>2, <1>8, MessageCases DEF ofono_signal_cb
  <2>2. CASE /\ ~ (proxy.current \/ proxy.leaked)
             /\ queue' = q
             /\ UNCHANGED <<calls, object, list, modem_idx, devices, aborted>>
    BY <1>7, <1>8, <2>1, <2>2
  <2>3. CASE /\ proxy.current \/ proxy.leaked
             /\ e.msg = "ModemAdded"
             /\ add_modem({e.modem}, q)
    <3>1. \A m \in Modems : m \in {e.modem} <=> e \in Naming(m)
      BY <1>2, <2>1, <2>3 DEF Naming
    <3> DEFINE ms == {e.modem}
    <3>2. ms \in SUBSET Modems /\ add_modem(ms, q)
      BY <2>1, <2>3
    <3> HIDE DEF ms
    <3>3. \A m \in Modems : m \in ms <=> e \in Naming(m)
      BY <3>1 DEF ms
    <3> QED
      BY <1>6, <2>1, <2>3, <3>2, <3>3, Zenon
  <2>4. CASE /\ proxy.current \/ proxy.leaked
             /\ e.msg = "ModemRemoved"
             /\ remove_modem(e.modem, q)
    <3> DEFINE m == e.modem
    <3>1. m \in Modems /\ remove_modem(m, q)
      BY <2>1, <2>4
    <3> HIDE DEF m
    <3>2. /\ Settled /\ SentOn(q) /\ Fewer /\ UNCHANGED aborted
          /\ list' = list \ find_modem(m) /\ devices' = devices \ find_modem(m)
      BY <1>2, <2>1, <3>1, RemoveDone
    <3>3. e \in Gone(m)
      BY <1>2, <2>4 DEF Gone, m
    <3>4. Removes(e, q)
      BY <2>1, <3>1, <3>2, <3>3 DEF Removes, m
    <3> QED
      BY <3>2, <3>4 DEF Handles
  <2> QED
    BY <1>8, <2>2, <2>3, <2>4 DEF ofono_signal_cb
<1>9. CASE e.msg = "PropertyChanged" /\ modem_signal_cb(e, q)
  <2>1. Tracked(object, calls, q)
    BY <1>2, <1>9
  <2>2. Settled /\ SentOn(q) /\ Hearing(e) /\ HadKept
    BY <1>2, <1>9, <2>1, SignalDone
  <2>3. Tells(e, q)
    <3>1. UNCHANGED <<cancelled, proxy, list, aborted>>
      BY <1>9 DEF modem_signal_cb, managerVars
    <3> QED
      BY <1>9, <2>2, <3>1 DEF Tells
  <2> QED
    BY <2>2, <2>3 DEF Handles
<1>10. CASE e.msg = "Reply" /\ e.call.call = "GetModems" /\ ofono_get_modems_cb(e, q)
  <2>1. /\ Tracked(object, calls, q)
        /\ e.call \in Call /\ e.ok \in BOOLEAN /\ e.modems \in SUBSET Modems
        /\ UNCHANGED <<cancelled, proxy>>
    BY <1>2, <1>10, MessageCases DEF ofono_get_modems_cb
  <2>2. e.call = GetModems
    BY <1>10, <2>1, CallCases
  <2>3. CASE e.ok /\ proxy.current /\ add_modem(e.modems, q)
    <3> DEFINE ms == e.modems
    <3>1. \A m \in Modems : m \in ms <=> e \in Naming(m)
      BY <1>2, <1>10, <2>2, <2>3 DEF Naming
    <3>2. ms \in SUBSET Modems /\ add_modem(ms, q)
      BY <2>1, <2>3
    <3> HIDE DEF ms
    <3> QED
      BY <1>6, <1>10, <2>1, <2>2, <2>3, <3>1, <3>2
  <2>4. CASE /\ ~ (e.ok /\ proxy.current)
             /\ queue' = q
             /\ UNCHANGED <<calls, object, list, modem_idx, devices, aborted>>
    BY <1>7, <1>10, <2>1, <2>2, <2>4
  <2> QED
    BY <1>10, <2>3, <2>4 DEF ofono_get_modems_cb
<1>11. CASE e.msg = "Reply" /\ e.call.call = "GetProperties" /\ get_properties_cb(e, q)
  <2>1. AnswerRead(e.call.obj, q)
    BY <1>2, <1>11
  <2>2. Settled /\ SentOn(q) /\ Hearing(e) /\ HadKept
    BY <1>2, <1>11, <2>1, AnswerDone
  <2>3. Tells(e, q)
    BY <1>11, <2>2 DEF Tells, get_properties_cb, managerVars
  <2> QED
    BY <2>2, <2>3 DEF Handles
<1>12. CASE e.msg = "Reply" /\ e.call.call = "SetProperty" /\ set_online_cb(e, q)
  <2>1. SetRead(e.call.obj, q)
    BY <1>2, <1>12
  <2>2. Settled /\ SentOn(q) /\ Hearing(e) /\ HadKept
    BY <1>2, <1>12, <2>1, SetDone
  <2>3. Tells(e, q)
    BY <1>12, <2>2 DEF Tells, set_online_cb, managerVars
  <2> QED
    BY <2>2, <2>3 DEF Handles
<1> QED
  BY <1>1, <1>3, <1>4, <1>5, <1>8, <1>9, <1>10, <1>11, <1>12
-----------------------------------------------------------------------------
(* The types.                                                              *)

LEMMA SaysTyped ==
    ASSUME CallsInv, NEW es, NEW D, Says(es, D),
           UNCHANGED <<managerVars, object, devices, aborted>>,
           running' \in BOOLEAN, modem' \in [Modems -> States],
           inputs' \in 0..MaxInputs, failed' \in BOOLEAN
    PROVE  CallsInv'
<1>1. Shape /\ Tracked(object, calls, queue)
  BY DEF CallsInv
<1>2. queue \in Seq(Message) /\ calls \subseteq Call
  BY <1>1 DEF Shape
<1>3. PICK ms \in Seq(Message) : queue' = queue \o ms /\ Answered(ms, D)
  BY DEF Says
<1>4. D \in SUBSET calls /\ calls' = calls \ D /\ object' = object
  BY DEF Says
<1>5. Tracked(object, calls \ D, queue \o ms)
  BY <1>1, <1>2, <1>3, <1>4, TrackedMoved DEF SameCalls
<1>6. Tracked(object, calls, queue)'
  BY <1>3, <1>4, <1>5
<1>7. queue' \in Seq(Message) /\ calls' \subseteq Call
  BY <1>2, <1>3, <1>4, Sent
<1>8. Shape'
  BY <1>1, <1>7 DEF Shape, managerVars, Alive, Well
<1> QED
  BY <1>6, <1>8 DEF CallsInv

LEMMA CallsDispatch == ASSUME CallsInv, Dispatch PROVE CallsInv'
<1>1. Settled /\ UNCHANGED <<running, modem, inputs, failed>>
  BY DispatchDone
<1>2. Shape'
  BY <1>1 DEF Shape, Settled, CallsInv, Alive, Well
<1>3. Tracked(object, calls, queue)'
  BY <1>1 DEF Settled
<1> QED
  BY <1>2, <1>3 DEF CallsInv

LEMMA CallsOfono == ASSUME CallsInv, Ofono PROVE CallsInv'
<1>1. /\ running \in BOOLEAN /\ modem \in [Modems -> States]
      /\ inputs \in 0..MaxInputs /\ failed \in BOOLEAN
  BY DEF CallsInv, Shape
<1>2. UNCHANGED <<managerVars, object, devices, aborted>> /\ UNCHANGED <<inputs, failed>>
  BY DEF Ofono
<1>3. ASSUME NEW es, NEW D, Says(es, D), running' = running, modem' \in [Modems -> States]
      PROVE  CallsInv'
  BY <1>1, <1>2, <1>3, SaysTyped
<1>4. CASE AnswerGetModems
  <2>1. UNCHANGED <<running, modem>>
    BY <1>4 DEF AnswerGetModems
  <2> QED
    BY <1>1, <1>3, <1>4, <2>1, ModemsSays
<1>5. CASE AnswerGetProperties
  <2>1. UNCHANGED <<running, modem>>
    BY <1>5 DEF AnswerGetProperties
  <2>2. \E es, D : Says(es, D)
    BY <1>5, PropertiesSays
  <2> QED
    BY <1>1, <1>3, <2>1, <2>2
<1>6. CASE AnswerSetProperty
  <2>1. running' = running
    BY <1>6 DEF AnswerSetProperty
  <2>2. PICK o \in Alive, on \in BOOLEAN, es \in Seq(Message) :
           /\ Says(es, {SetProperty(o, on)})
           /\ \/ modem' = modem
              \/ modem' = [modem EXCEPT ![object[o].modem] = IF on THEN "online" ELSE "offline"]
    BY <1>6, SettingSays
  <2>3. modem' \in [Modems -> States]
    BY <1>1, <2>2 DEF States
  <2> QED
    BY <1>3, <2>1, <2>2, <2>3
<1> QED
  BY <1>4, <1>5, <1>6 DEF Ofono

LEMMA CallsTold ==
    ASSUME CallsInv, NEW o \in devices, Block(o) \/ urf_daemon_block_idx(o)
    PROVE  /\ Tracked(object', calls', queue') /\ Well(object')
           /\ queue' \in Seq(Message) /\ calls' \subseteq Call
           /\ SentOn(queue)
           /\ DOMAIN object' = Alive
           /\ \A d \in Alive :
                /\ object'[d].modem = object[d].modem /\ object'[d].index = object[d].index
                /\ object'[d].Powered = object[d].Powered
                /\ object'[d].Online = object[d].Online
<1> DEFINE os == {o}
           obj == [object EXCEPT ![o].leaked = TRUE]
<1>1. /\ Well(object) /\ calls \subseteq Call /\ queue \in Seq(Message)
      /\ Tracked(object, calls, queue) /\ os \in SUBSET Alive /\ o \in Alive
  BY DEF CallsInv, Shape
<1>2. DOMAIN obj = Alive /\ obj = [d \in Alive |-> obj[d]]
  BY DEF Alive
<1>3. ASSUME NEW d \in Alive
      PROVE  /\ object[d] \in Object /\ obj[d] \in Object /\ obj[d].modem = object[d].modem
             /\ obj[d].index = object[d].index
             /\ obj[d].Powered = object[d].Powered /\ obj[d].Online = object[d].Online
             /\ obj[d].asking = object[d].asking /\ obj[d].pending = object[d].pending
  <2>1. object[d] \in Object
    BY <1>1 DEF Well, Alive
  <2>2. obj[d] = IF d = o THEN [object[d] EXCEPT !.leaked = TRUE] ELSE object[d]
    BY DEF Alive
  <2> HIDE DEF obj
  <2> QED
    BY <2>1, <2>2 DEF Object
<1>4. \/ set_soft(os, object, queue)
      \/ set_soft(os, obj, queue)
      \/ object' = obj /\ calls' = calls /\ queue' = queue
  BY DEF Block, urf_daemon_block_idx
<1> HIDE DEF obj, os
<1>5. Well(obj)
  BY <1>1, <1>2, <1>3 DEF Well, Alive
<1>6. Tracked(obj, calls, queue)
  <2>1. SameCalls(object, obj)
    BY <1>2, <1>3 DEF SameCalls, Alive
  <2> QED
    BY <1>1, <2>1, SameTracked
<1>7. ASSUME NEW x, Well(x), DOMAIN x = Alive, Tracked(x, calls, queue),
             set_soft(os, x, queue),
             \A d \in Alive : /\ x[d] \in Object
                              /\ x[d].modem = object[d].modem /\ x[d].index = object[d].index
                              /\ x[d].Powered = object[d].Powered
                              /\ x[d].Online = object[d].Online
      PROVE  /\ Tracked(object', calls', queue') /\ Well(object')
             /\ queue' \in Seq(Message) /\ calls' \subseteq Call
             /\ SentOn(queue)
             /\ DOMAIN object' = Alive
             /\ \A d \in Alive :
                  /\ object'[d].modem = object[d].modem /\ object'[d].index = object[d].index
                  /\ object'[d].Powered = object[d].Powered
                  /\ object'[d].Online = object[d].Online
  <2>1. /\ Tracked(object', calls', queue') /\ Well(object')
        /\ queue' \in Seq(Message) /\ calls' \subseteq Call
        /\ DOMAIN object' = DOMAIN x
        /\ \A d \in DOMAIN x : \E b \in BOOLEAN : object'[d] = [x[d] EXCEPT !.pending = b]
    BY <1>1, <1>7, SoftSet
  <2>2. SentOn(queue)
    BY <1>1, <1>7, SoftSent
  <2>3. ASSUME NEW d \in Alive
        PROVE  /\ object'[d].modem = x[d].modem /\ object'[d].index = x[d].index
               /\ object'[d].Powered = x[d].Powered /\ object'[d].Online = x[d].Online
    <3>1. PICK b \in BOOLEAN : object'[d] = [x[d] EXCEPT !.pending = b]
      BY <1>7, <2>1
    <3>2. x[d] \in Object
      BY <1>7
    <3> QED
      BY <3>1, <3>2 DEF Object
  <2> QED
    BY <1>7, <2>1, <2>2, <2>3
<1>8. CASE set_soft(os, object, queue)
  BY <1>1, <1>3, <1>7, <1>8 DEF Alive
<1>9. CASE set_soft(os, obj, queue)
  BY <1>2, <1>3, <1>5, <1>6, <1>7, <1>9
<1>10. CASE object' = obj /\ calls' = calls /\ queue' = queue
  <2>1. SentOn(queue)
    BY <1>10, NotSent
  <2> QED
    BY <1>1, <1>2, <1>3, <1>5, <1>6, <1>10, <2>1
<1> QED
  BY <1>4, <1>8, <1>9, <1>10

LEMMA CallsInput == ASSUME CallsInv, Input PROVE CallsInv'
<1>1. /\ running \in BOOLEAN /\ modem \in [Modems -> States] /\ MaxInputs \in Nat
      /\ inputs \in 0..MaxInputs /\ failed \in BOOLEAN /\ devices \subseteq Alive
  BY OfonoAssumption DEF CallsInv, Shape, OfonoAssumption
<1>2. UNCHANGED <<managerVars, devices, aborted>> /\ inputs' \in 0..MaxInputs
  <2>1. inputs < MaxInputs /\ inputs' = inputs + 1
    BY DEF Input
  <2> QED
    BY <1>1, <2>1 DEF Input
<1>3. ASSUME NEW es, NEW D, Says(es, D), object' = object, running' \in BOOLEAN,
             modem' \in [Modems -> States], failed' \in BOOLEAN
      PROVE  CallsInv'
  BY <1>1, <1>2, <1>3, SaysTyped
<1>4. CASE Start /\ UNCHANGED <<object, failed>>
  BY <1>1, <1>3, <1>4, StartSays DEF Start
<1>5. CASE Stop /\ UNCHANGED <<object, failed>>
  <2>1. running' \in BOOLEAN /\ modem' \in [Modems -> States]
    BY <1>5 DEF Stop, States
  <2> QED
    BY <1>1, <1>3, <1>5, <2>1, StopSays
<1>6. ASSUME NEW m \in Modems, ModemAppears(m), UNCHANGED <<object, failed>> PROVE CallsInv'
  <2>1. running' \in BOOLEAN /\ modem' \in [Modems -> States]
    BY <1>1, <1>6 DEF ModemAppears, States
  <2> QED
    BY <1>1, <1>3, <1>6, <2>1, AppearsSays
<1>7. ASSUME NEW m \in Modems, ModemDisappears(m), UNCHANGED <<object, failed>> PROVE CallsInv'
  <2>1. running' \in BOOLEAN /\ modem' \in [Modems -> States]
    BY <1>1, <1>7 DEF ModemDisappears, States
  <2> QED
    BY <1>1, <1>3, <1>7, <2>1, DisappearsSays
<1>8. ASSUME NEW m \in Modems, ModemPowers(m), UNCHANGED <<object, failed>> PROVE CallsInv'
  <2>1. running' \in BOOLEAN /\ modem' \in [Modems -> States]
    BY <1>1, <1>8 DEF ModemPowers, States
  <2> QED
    BY <1>1, <1>3, <1>8, <2>1, PowersSays
<1>9. ASSUME NEW c \in Call, Fail(c), failed' = (failed \/ c.call # "SetProperty"),
             UNCHANGED object
      PROVE  CallsInv'
  <2>1. UNCHANGED <<running, modem>> /\ failed' \in BOOLEAN
    BY <1>1, <1>9 DEF Fail
  <2> QED
    BY <1>1, <1>3, <1>9, <2>1, FailSays
<1>10. ASSUME NEW o \in devices, Block(o) \/ urf_daemon_block_idx(o),
              UNCHANGED <<running, modem, failed>>
       PROVE  CallsInv'
  <2>1. /\ Tracked(object', calls', queue') /\ Well(object')
        /\ queue' \in Seq(Message) /\ calls' \subseteq Call
        /\ DOMAIN object' = Alive
    BY <1>10, CallsTold
  <2>2. Shape'
    BY <1>2, <1>10, <2>1 DEF CallsInv, Shape, managerVars, Well, Alive
  <2> QED
    BY <2>1, <2>2 DEF CallsInv
<1> QED
  BY <1>4, <1>5, <1>6, <1>7, <1>8, <1>9, <1>10 DEF Input

LEMMA CallsStep == CallsInv /\ [Next]_vars => CallsInv'
<1> SUFFICES ASSUME CallsInv, [Next]_vars PROVE CallsInv'
  OBVIOUS
<1>1. CASE UNCHANGED vars
  BY <1>1 DEF vars, ofonoVars, managerVars, CallsInv, Shape, Tracked, Well, Alive
<1> QED
  BY <1>1, CallsOfono, CallsDispatch, CallsInput DEF Next

\* The flags of every object are those of the calls it waits for, and what the
\* manager and the arbitrator have are objects that are alive: none is freed while
\* somebody holds it, whatever oFono and the clients do.
THEOREM OfonoTypes == Spec => []TypeOK
<1>1. Spec => []CallsInv
  BY CallsBegin, CallsStep, PTL DEF Spec
<1>2. CallsInv => TypeOK
  BY InvTyped
<1> QED
  BY <1>1, <1>2, PTL
-----------------------------------------------------------------------------
(* What the manager knows.  Each part of the invariant relates what waits  *)
(* in the queue with what oFono has and what urfkilld has of it.           *)

Owners  == Owner(TRUE) \cup Owner(FALSE)
Proxies == Ready(TRUE) \cup Ready(FALSE)
Listed(m) == \E o \in list : object[o].modem = m

\* The last the bus says of oFono's name is true.
NameInv ==
    /\ running => Covered(queue, Owner(FALSE), Owner(TRUE))
    /\ ~ running => /\ Covered(queue, Owner(TRUE), Owner(FALSE))
                    /\ calls = {}
                    /\ \A m \in Modems : modem[m] = "absent"

\* When that is handled the manager has a proxy or gets one; it hears signals as long
\* as it has modems, each of them once.
ServeInv ==
    /\ running /\ ~ Has(queue, Owners) =>
         /\ ~ cancelled /\ Covered(queue, Ready(TRUE), Ready(FALSE))
         /\ proxy.current \/ Has(queue, Proxies)
    /\ list # {} => proxy.current \/ proxy.leaked
    /\ \A a, b \in list : object[a].modem = object[b].modem => a = b

\* Whatever speaks of a modem that is gone has its end behind it.
Leaving(m) ==
    /\ Listed(m) => Has(queue, Drop(m))
    /\ Covered(queue, Naming(m), Drop(m))
    /\ \A p \in Properties : Covered(queue, Signal(m, p), Drop(m))
    /\ \A o \in Alive : object[o].modem = m => Covered(queue, Answer(o), Drop(m))

\* A modem of oFono is known or will be.
Coming(m) ==
    \/ Has(queue, Owners) \/ Has(queue, Proxies) \/ GetModems \in calls
    \/ ~ Covered(queue, Naming(m), Gone(m))
    \/ Listed(m) /\ ~ Has(queue, Gone(m))
PlaceInv(m) ==
    /\ modem[m] = "absent" => Leaving(m)
    /\ modem[m] # "absent" /\ ~ failed => Coming(m)

\* What tells an old value of a property has a newer one, or the modem's end, behind it.
Latest(m, p, v) ==
    LET later == Drop(m) \cup Signal(m, p) IN
    /\ Covered(queue, SignalOf(m, p, v), later)
    /\ \A o \in Alive : object[o].modem = m => Covered(queue, AnswerOf(o, p, v), later)

\* A modem of the list is on its way out, or what is known of it is true or will be told.
Current(o, p) ==
    LET m == object[o].modem IN
    \/ Has(queue, Drop(m)) \/ GetProperties(o) \in calls
    \/ Has(queue, Signal(m, p) \cup Answer(o))
    \/ Of(object[o], p) = {Val(p, modem[m])}
ValueInv(m, p) ==
    /\ \A v \in BOOLEAN : v # Val(p, modem[m]) => Latest(m, p, v)
    /\ ~ failed => \A o \in list : object[o].modem = m => Current(o, p)

WorldInv ==
    /\ NameInv /\ ServeInv
    /\ \A m \in Modems : PlaceInv(m) /\ \A p \in Properties : ValueInv(m, p)

HadInv == ~ aborted => Had(list, devices, object)

IInv == CallsInv /\ WorldInv /\ HadInv

LEMMA PlainSets ==
    /\ \A up : Plain(Owner(up)) /\ Plain(Ready(up))
    /\ Plain(Owners) /\ Plain(Proxies)
    /\ \A m : Plain(Gone(m)) /\ Plain(Drop(m)) /\ Plain(Naming(m))
    /\ \A m, p : Plain(Signal(m, p)) /\ Plain(Drop(m) \cup Signal(m, p))
    /\ \A o : Plain(Answer(o))
    /\ \A m, p, o : Plain(Signal(m, p) \cup Answer(o))
    /\ \A m, p, v : Plain(SignalOf(m, p, v))
    /\ \A o, p, v : Plain(AnswerOf(o, p, v))
<1>1. ASSUME NEW e \in Dull
      PROVE  e.msg = "Reply" /\ (~ e.ok \/ e.call.call = "SetProperty")
  BY DEF Dull
<1>2. \A up : Plain(Owner(up)) /\ Plain(Ready(up))
  BY <1>1 DEF Plain, Owner, Ready
<1>3. \A m : Plain(Gone(m)) /\ Plain(Naming(m))
  <2>1. ASSUME NEW m, NEW e \in Dull PROVE e \notin Gone(m)
    BY <1>1 DEF Gone
  <2>2. ASSUME NEW m, NEW e \in Dull PROVE e \notin Naming(m)
    BY <1>1, CallMade DEF Naming
  <2> QED
    BY <2>1, <2>2 DEF Plain
<1>4. \A m, p : Plain(Signal(m, p))
  BY <1>1 DEF Plain, Signal
<1>5. ASSUME NEW o, NEW e \in Dull PROVE e \notin Answer(o)
  BY <1>1, CallMade DEF Answer
<1>6. /\ Plain(Owners) /\ Plain(Proxies) /\ \A m : Plain(Drop(m))
      /\ \A m, p : Plain(Drop(m) \cup Signal(m, p))
  BY <1>2, <1>3, <1>4 DEF Plain, Owners, Proxies, Drop
<1>7. \A m, p, o : Plain(Signal(m, p) \cup Answer(o))
  BY <1>4, <1>5 DEF Plain
<1>8. \A m, p, v : Plain(SignalOf(m, p, v))
  BY <1>4 DEF Plain, SignalOf
<1>9. \A o, p, v : Plain(AnswerOf(o, p, v))
  BY <1>5 DEF Plain, AnswerOf
<1>10. \A o : Plain(Answer(o))
  BY <1>5 DEF Plain
<1> QED
  BY <1>2, <1>3, <1>4, <1>6, <1>7, <1>8, <1>9, <1>10

\* Which messages are of which sets.
LEMMA Kinds ==
    ASSUME NEW e
    PROVE  /\ e.msg # "NameOwnerChanged" => e \notin Owners /\ \A up : e \notin Owner(up)
           /\ e.msg # "ProxyReady" => e \notin Proxies /\ \A s : e \notin Ready(s)
           /\ e.msg # "ModemRemoved" => \A m : e \notin Gone(m)
           /\ e.msg \notin {"ModemAdded", "Reply"} => \A m : e \notin Naming(m)
           /\ e.msg # "PropertyChanged" =>
                \A m, p : e \notin Signal(m, p) /\ \A v : e \notin SignalOf(m, p, v)
           /\ e.msg # "Reply" =>
                \A o : e \notin Answer(o) /\ \A p, v : e \notin AnswerOf(o, p, v)
           /\ e.msg \notin {"NameOwnerChanged", "ModemRemoved"} => \A m : e \notin Drop(m)
<1>1. /\ e.msg # "NameOwnerChanged" => e \notin Owners /\ \A up : e \notin Owner(up)
      /\ e.msg # "ProxyReady" => e \notin Proxies /\ \A s : e \notin Ready(s)
  BY DEF Owners, Owner, Proxies, Ready
<1>2. /\ e.msg # "ModemRemoved" => \A m : e \notin Gone(m)
      /\ e.msg \notin {"ModemAdded", "Reply"} => \A m : e \notin Naming(m)
  BY DEF Gone, Naming
<1>3. e.msg # "PropertyChanged" =>
        \A m, p : e \notin Signal(m, p) /\ \A v : e \notin SignalOf(m, p, v)
  BY DEF Signal, SignalOf
<1>4. e.msg # "Reply" =>
        \A o : e \notin Answer(o) /\ \A p, v : e \notin AnswerOf(o, p, v)
  BY DEF Answer, AnswerOf
<1>5. e.msg \notin {"NameOwnerChanged", "ModemRemoved"} => \A m : e \notin Drop(m)
  BY DEF Drop, Owner, Gone
<1> QED
  BY <1>1, <1>2, <1>3, <1>4, <1>5

\* The message e is behind what waited; e was read; nothing that matters has changed.
Grows(e) ==
    \A B, G : Plain(B) /\ Plain(G) =>
        /\ Has(queue', G) <=> Has(queue, G) \/ e \in G
        /\ Covered(queue', B, G) <=> e \notin B /\ (Covered(queue, B, G) \/ e \in G)
Took(e) ==
    \A B, G : Plain(B) /\ Plain(G) =>
        /\ Has(queue, G) <=> e \in G \/ Has(queue', G)
        /\ Covered(queue, B, G) <=> Covered(queue', B, G) /\ (e \in B => Has(queue', G))
Stays ==
    \A B, G : Plain(B) /\ Plain(G) =>
        /\ Has(queue', G) <=> Has(queue, G)
        /\ Covered(queue', B, G) <=> Covered(queue, B, G)

LEMMA SaysGrows ==
    ASSUME CallsInv, NEW es \in Seq(Message), NEW D, Says(es, D), NEW B, NEW G, Plain(B), Plain(G)
    PROVE  /\ Has(queue', G) <=> Has(queue, G) \/ Has(es, G)
           /\ Covered(queue', B, G)
              <=> Covered(es, B, G) /\ (Covered(queue, B, G) \/ Has(es, G))
<1>1. queue \in Seq(Message)
  BY DEF CallsInv, Shape
<1>2. PICK ms \in Seq(Message) : queue' = queue \o ms /\ Worth(ms, es)
  BY DEF Says
<1>3. /\ Has(ms, G) <=> Has(es, G)
      /\ Covered(ms, B, G) <=> Covered(es, B, G)
  BY <1>2 DEF Worth
<1>4. /\ Has(queue \o ms, G) <=> Has(queue, G) \/ Has(ms, G)
      /\ Covered(queue \o ms, B, G)
         <=> Covered(ms, B, G) /\ (Covered(queue, B, G) \/ Has(ms, G))
  BY <1>1, <1>2, Sent
<1> QED
  BY <1>2, <1>3, <1>4

LEMMA OneGrows ==
    ASSUME CallsInv, NEW e \in Message, NEW D, Says(<<e>>, D)
    PROVE  Grows(e)
<1> DEFINE es == <<e>>
<1>1. es \in Seq(Message) /\ Says(es, D)
  OBVIOUS
<1>2. /\ \A G : Has(es, G) <=> e \in G
      /\ \A B, G : Covered(es, B, G) <=> e \notin B
  BY One
<1> HIDE DEF es
<1>3. ASSUME NEW B, NEW G, Plain(B), Plain(G)
      PROVE  /\ Has(queue', G) <=> Has(queue, G) \/ Has(es, G)
             /\ Covered(queue', B, G)
                <=> Covered(es, B, G) /\ (Covered(queue, B, G) \/ Has(es, G))
  BY <1>1, <1>3, SaysGrows
<1> QED
  BY <1>2, <1>3 DEF Grows

LEMMA DullStays ==
    ASSUME CallsInv, NEW e \in Dull, Grows(e)
    PROVE  Stays
BY DEF Grows, Stays, Plain

LEMMA SentStays == ASSUME SentOn(queue) PROVE Stays
BY DEF SentOn, Stays

LEMMA SentTook ==
    ASSUME CallsInv, queue # <<>>, SentOn(Tail(queue))
    PROVE  Took(Head(queue))
<1> DEFINE q == Tail(queue)
           e == Head(queue)
<1>1. queue \in Seq(Message)
  BY DEF CallsInv, Shape
<1>2. /\ \A G : Has(queue, G) <=> e \in G \/ Has(q, G)
      /\ \A B, G : Covered(queue, B, G) <=> Covered(q, B, G) /\ (e \in B => Has(q, G))
  BY <1>1, Read
<1>3. SentOn(q)
  OBVIOUS
<1> HIDE DEF q, e
<1>4. Took(e)
  BY <1>2, <1>3 DEF Took, SentOn
<1> QED
  BY <1>4 DEF e
\* What is behind does not matter to the sets of messages within A.
Spares(A) ==
    \A B, G : Plain(B) /\ Plain(G) /\ B \subseteq A /\ G \subseteq A =>
        /\ Has(queue', G) <=> Has(queue, G)
        /\ Covered(queue', B, G) <=> Covered(queue, B, G)

LEMMA GrowsSpares == ASSUME NEW e, Grows(e), NEW A, e \notin A PROVE Spares(A)
BY DEF Grows, Spares

LEMMA StaysSpares == ASSUME Stays, NEW A PROVE Spares(A)
BY DEF Stays, Spares

\* The messages that matter to a modem: what tells of a property, and what heads for
\* its name.
Signals(m) == {e \in Message : \E p \in Properties : e \in Signal(m, p)}
Answers(m) == {e \in Message : \E o \in Alive : object[o].modem = m /\ e \in Answer(o)}
Telling(m, p) == Drop(m) \cup Signal(m, p) \cup Answers(m)
Heading(m) == Owners \cup Proxies \cup Naming(m) \cup Gone(m)
About(m)   == Heading(m) \cup Signals(m) \cup Answers(m)

LEMMA Within ==
    ASSUME NEW m
    PROVE  /\ Gone(m) \subseteq Heading(m) /\ Naming(m) \subseteq Heading(m)
           /\ Owners \subseteq Heading(m) /\ Proxies \subseteq Heading(m)
           /\ Heading(m) \subseteq About(m) /\ Drop(m) \subseteq Heading(m)
           /\ \A p \in Properties : Telling(m, p) \subseteq About(m)
           /\ \A p : /\ Drop(m) \subseteq Telling(m, p) /\ Signal(m, p) \subseteq Telling(m, p)
                    /\ Drop(m) \cup Signal(m, p) \subseteq Telling(m, p)
                    /\ \A v : SignalOf(m, p, v) \subseteq Telling(m, p)
           /\ \A o \in Alive : object[o].modem = m =>
                \A p : /\ Answer(o) \subseteq Telling(m, p)
                      /\ \A v : AnswerOf(o, p, v) \subseteq Telling(m, p)
                      /\ Signal(m, p) \cup Answer(o) \subseteq Telling(m, p)
<1>1. ASSUME NEW p
      PROVE  /\ Drop(m) \subseteq Telling(m, p) /\ Signal(m, p) \subseteq Telling(m, p)
             /\ \A v : SignalOf(m, p, v) \subseteq Telling(m, p)
  BY DEF Telling, SignalOf
<1>2. ASSUME NEW o \in Alive, object[o].modem = m
      PROVE  Answer(o) \subseteq Answers(m) /\ \A p, v : AnswerOf(o, p, v) \subseteq Answers(m)
  BY <1>2 DEF Answers, AnswerOf, Answer
<1>3. \A p : Answers(m) \subseteq Telling(m, p)
  BY DEF Telling
<1>4. /\ Gone(m) \subseteq Heading(m) /\ Naming(m) \subseteq Heading(m)
      /\ Owners \subseteq Heading(m) /\ Proxies \subseteq Heading(m)
      /\ Heading(m) \subseteq About(m)
  BY DEF Heading, About
<1>5. Drop(m) \subseteq Heading(m)
  BY DEF Drop, Heading, Owners
<1>6. ASSUME NEW p \in Properties PROVE Signal(m, p) \subseteq Signals(m)
  BY DEF Signals, Signal
<1>7. ASSUME NEW p \in Properties PROVE Telling(m, p) \subseteq About(m)
  BY <1>4, <1>5, <1>6 DEF Telling, About
<1> QED
  BY <1>1, <1>2, <1>3, <1>4, <1>5, <1>7

LEMMA SparesLess == ASSUME NEW A, NEW B, B \subseteq A, Spares(A) PROVE Spares(B)
BY DEF Spares

\* The manager, its objects and their modems are as they were.
SameManager ==
    /\ cancelled' = cancelled /\ proxy' = proxy /\ list' = list
    /\ DOMAIN object' = Alive
    /\ \A o \in Alive : /\ object'[o].modem = object[o].modem
                        /\ \A p : Of(object'[o], p) = Of(object[o], p)

LEMMA ServeKept ==
    ASSUME CallsInv, SameManager, Spares(Owners \cup Proxies),
           running' = running, \A m \in Modems : ~ running => modem'[m] = "absent",
           ~ running => calls' = {}, NameInv, ServeInv
    PROVE  NameInv' /\ ServeInv'
<1>1. \A up \in BOOLEAN : Plain(Owner(up)) /\ Plain(Ready(up))
  BY PlainSets
<1>2. Plain(Owners) /\ Plain(Proxies)
  BY PlainSets
<1> DEFINE A == Owners \cup Proxies
<1>3. Owners \subseteq A /\ Proxies \subseteq A
  OBVIOUS
<1>4. \A up \in BOOLEAN : Owner(up) \subseteq A /\ Ready(up) \subseteq A
  BY DEF Owners, Proxies
<1> HIDE DEF A
<1>5. /\ Has(queue', Owners) <=> Has(queue, Owners)
      /\ Has(queue', Proxies) <=> Has(queue, Proxies)
      /\ Covered(queue', Owner(FALSE), Owner(TRUE)) <=> Covered(queue, Owner(FALSE), Owner(TRUE))
      /\ Covered(queue', Owner(TRUE), Owner(FALSE)) <=> Covered(queue, Owner(TRUE), Owner(FALSE))
      /\ Covered(queue', Ready(TRUE), Ready(FALSE)) <=> Covered(queue, Ready(TRUE), Ready(FALSE))
  BY <1>1, <1>2, <1>3, <1>4 DEF Spares, A
<1>6. list \subseteq Alive
  BY DEF CallsInv, Shape
<1>7. NameInv'
  BY <1>5 DEF NameInv
<1>8. /\ running' /\ ~ Has(queue', Owners) =>
            /\ ~ cancelled' /\ Covered(queue', Ready(TRUE), Ready(FALSE))
            /\ proxy'.current \/ Has(queue', Proxies)
      /\ list' # {} => proxy'.current \/ proxy'.leaked
  BY <1>5 DEF ServeInv, SameManager
<1>9. \A a, b \in list' : object'[a].modem = object'[b].modem => a = b
  BY <1>6 DEF ServeInv, SameManager
<1>10. ServeInv'
  BY <1>8, <1>9 DEF ServeInv
<1> QED
  BY <1>7, <1>10

LEMMA LeavingKept ==
    ASSUME CallsInv, SameManager, NEW m \in Modems, Spares(About(m)), Leaving(m)
    PROVE  Leaving(m)'
<1>1. /\ Plain(Drop(m)) /\ Plain(Naming(m)) /\ \A p : Plain(Signal(m, p))
      /\ \A o : Plain(Answer(o))
  BY PlainSets
<1>2. /\ Drop(m) \subseteq About(m) /\ Naming(m) \subseteq About(m)
      /\ \A p \in Properties : Signal(m, p) \subseteq About(m)
      /\ \A o \in Alive : object[o].modem = m => Answer(o) \subseteq About(m)
  <2>1. "Powered" \in Properties
    BY DEF Properties
  <2> QED
    BY <2>1, Within
<1>3. /\ Has(queue', Drop(m)) <=> Has(queue, Drop(m))
      /\ Covered(queue', Naming(m), Drop(m)) <=> Covered(queue, Naming(m), Drop(m))
      /\ \A p \in Properties : Covered(queue', Signal(m, p), Drop(m))
                                 <=> Covered(queue, Signal(m, p), Drop(m))
      /\ \A o \in Alive : object[o].modem = m =>
           (Covered(queue', Answer(o), Drop(m)) <=> Covered(queue, Answer(o), Drop(m)))
  BY <1>1, <1>2 DEF Spares
<1>4. list \subseteq Alive
  BY DEF CallsInv, Shape
<1>5. Listed(m)' <=> Listed(m)
  BY <1>4 DEF Listed, SameManager
<1> QED
  BY <1>3, <1>5 DEF Leaving, SameManager, Alive

LEMMA ComingKept ==
    ASSUME CallsInv, SameManager, NEW m \in Modems, Spares(Heading(m)),
           GetModems \in calls => GetModems \in calls', Coming(m)
    PROVE  Coming(m)'
<1>1. /\ Plain(Gone(m)) /\ Plain(Naming(m)) /\ Plain(Owners) /\ Plain(Proxies)
  BY PlainSets
<1>2. /\ Gone(m) \subseteq Heading(m) /\ Naming(m) \subseteq Heading(m)
      /\ Owners \subseteq Heading(m) /\ Proxies \subseteq Heading(m)
  BY Within
<1>3. /\ Has(queue', Owners) <=> Has(queue, Owners)
      /\ Has(queue', Proxies) <=> Has(queue, Proxies)
      /\ Has(queue', Gone(m)) <=> Has(queue, Gone(m))
      /\ Covered(queue', Naming(m), Gone(m)) <=> Covered(queue, Naming(m), Gone(m))
  BY <1>1, <1>2 DEF Spares
<1>4. list \subseteq Alive
  BY DEF CallsInv, Shape
<1>5. Listed(m)' <=> Listed(m)
  BY <1>4 DEF Listed, SameManager
<1> QED
  BY <1>3, <1>5 DEF Coming

LEMMA LatestKept ==
    ASSUME CallsInv, SameManager, NEW m \in Modems, NEW p \in Properties, NEW v,
           Spares(Telling(m, p)), Latest(m, p, v)
    PROVE  Latest(m, p, v)'
<1> DEFINE later == Drop(m) \cup Signal(m, p)
<1>1. /\ Plain(later) /\ Plain(SignalOf(m, p, v)) /\ \A o : Plain(AnswerOf(o, p, v))
  BY PlainSets
<1>2. /\ later \subseteq Telling(m, p) /\ SignalOf(m, p, v) \subseteq Telling(m, p)
      /\ \A o \in Alive : object[o].modem = m => AnswerOf(o, p, v) \subseteq Telling(m, p)
  BY Within
<1>3. /\ Covered(queue, SignalOf(m, p, v), later)
      /\ \A o \in Alive : object[o].modem = m => Covered(queue, AnswerOf(o, p, v), later)
  BY DEF Latest
<1> HIDE DEF later
<1>4. /\ Covered(queue', SignalOf(m, p, v), later)
      /\ \A o \in Alive : object[o].modem = m => Covered(queue', AnswerOf(o, p, v), later)
  BY <1>1, <1>2, <1>3 DEF Spares
<1> QED
  BY <1>4 DEF Latest, later, SameManager, Alive

LEMMA CurrentKept ==
    ASSUME CallsInv, SameManager, NEW o \in list, NEW p \in Properties,
           Spares(Telling(object[o].modem, p)),
           GetProperties(o) \in calls => GetProperties(o) \in calls',
           Val(p, modem'[object[o].modem]) = Val(p, modem[object[o].modem]),
           Current(o, p)
    PROVE  Current(o, p)'
<1> DEFINE m == object[o].modem
           B == Signal(m, p) \cup Answer(o)
<1>1. o \in Alive
  BY DEF CallsInv, Shape
<1>2. Plain(Drop(m)) /\ Plain(B)
  BY PlainSets
<1>3. Drop(m) \subseteq Telling(m, p) /\ B \subseteq Telling(m, p)
  BY <1>1, Within
<1>4. object'[o].modem = m /\ Of(object'[o], p) = Of(object[o], p)
  BY <1>1 DEF SameManager
<1>5. \/ Has(queue, Drop(m)) \/ GetProperties(o) \in calls \/ Has(queue, B)
      \/ Of(object[o], p) = {Val(p, modem[m])}
  BY DEF Current
<1>6. Spares(Telling(m, p)) /\ Val(p, modem'[m]) = Val(p, modem[m])
  OBVIOUS
<1> HIDE DEF m, B
<1>7. /\ Has(queue', Drop(m)) <=> Has(queue, Drop(m))
      /\ Has(queue', B) <=> Has(queue, B)
  BY <1>2, <1>3, <1>6 DEF Spares
<1>8. \/ Has(queue', Drop(m)) \/ GetProperties(o) \in calls' \/ Has(queue', B)
      \/ Of(object'[o], p) = {Val(p, modem'[m])}
  BY <1>4, <1>5, <1>6, <1>7
<1> QED
  BY <1>4, <1>8 DEF Current, B

LEMMA PlaceKept ==
    ASSUME CallsInv, SameManager, NEW m \in Modems, Spares(About(m)), PlaceInv(m),
           modem'[m] = modem[m], failed => failed',
           modem[m] # "absent" /\ GetModems \in calls => GetModems \in calls' \/ failed'
    PROVE  PlaceInv(m)'
<1>1. CASE modem[m] = "absent"
  <2>1. Leaving(m)'
    BY <1>1, LeavingKept DEF PlaceInv
  <2> QED
    BY <1>1, <2>1 DEF PlaceInv
<1>2. CASE modem[m] # "absent" /\ ~ failed'
  <2>1. Coming(m) /\ (GetModems \in calls => GetModems \in calls')
    BY <1>2 DEF PlaceInv
  <2>2. Spares(Heading(m))
    BY Within, SparesLess
  <2>3. Coming(m)'
    BY <2>1, <2>2, ComingKept
  <2> QED
    BY <1>2, <2>3 DEF PlaceInv
<1> QED
  BY <1>1, <1>2 DEF PlaceInv

\* What speaks of a modem that is gone is out of date.
LEMMA LeavingValue ==
    ASSUME NEW m \in Modems, Leaving(m), NEW p \in Properties
    PROVE  /\ \A v : Latest(m, p, v)
           /\ \A o \in list : object[o].modem = m => Has(queue, Drop(m))
<1> DEFINE later == Drop(m) \cup Signal(m, p)
<1>1. Drop(m) \subseteq later
  OBVIOUS
<1>2. Covered(queue, Signal(m, p), Drop(m))
  BY DEF Leaving
<1>3. ASSUME NEW v PROVE Covered(queue, SignalOf(m, p, v), later)
  <2>1. SignalOf(m, p, v) \subseteq Signal(m, p)
    BY DEF SignalOf
  <2> QED
    BY <1>1, <1>2, <2>1, Less
<1>4. ASSUME NEW v, NEW o \in Alive, object[o].modem = m
      PROVE  Covered(queue, AnswerOf(o, p, v), later)
  <2>1. AnswerOf(o, p, v) \subseteq Answer(o)
    BY DEF AnswerOf
  <2>2. Covered(queue, Answer(o), Drop(m))
    BY <1>4 DEF Leaving
  <2> QED
    BY <1>1, <2>1, <2>2, Less
<1>5. \A o \in list : object[o].modem = m => Has(queue, Drop(m))
  BY DEF Leaving, Listed
<1> QED
  BY <1>3, <1>4, <1>5 DEF Latest

LEMMA ValueKept ==
    ASSUME CallsInv, SameManager, NEW m \in Modems, NEW p \in Properties,
           Spares(Telling(m, p)), ValueInv(m, p), PlaceInv(m), failed => failed',
           Val(p, modem'[m]) = Val(p, modem[m]),
           \A o \in list : object[o].modem = m /\ GetProperties(o) \in calls =>
              GetProperties(o) \in calls' \/ failed' \/ modem[m] = "absent"
    PROVE  ValueInv(m, p)'
<1>1. ASSUME NEW v \in BOOLEAN, v # Val(p, modem'[m]) PROVE Latest(m, p, v)'
  <2>1. Latest(m, p, v)
    BY <1>1 DEF ValueInv
  <2> QED
    BY <2>1, LatestKept
<1>2. ASSUME ~ failed', NEW o \in list, object[o].modem = m PROVE Current(o, p)'
  <2>1. Current(o, p)
    BY <1>2 DEF ValueInv
  <2>2. CASE GetProperties(o) \in calls => GetProperties(o) \in calls'
    BY <1>2, <2>1, <2>2, CurrentKept
  <2>3. CASE modem[m] = "absent"
    <3>1. Leaving(m)
      BY <2>3 DEF PlaceInv
    <3>2. Has(queue, Drop(m))
      BY <1>2, <3>1, LeavingValue
    <3>3. Has(queue', Drop(m))
      BY <3>2, Within, PlainSets DEF Spares
    <3>4. o \in Alive
      BY DEF CallsInv, Shape
    <3>5. object'[o].modem = m
      BY <1>2, <3>4 DEF SameManager
    <3> QED
      BY <3>3, <3>5 DEF Current
  <2> QED
    BY <1>2, <2>2, <2>3
<1>3. list \subseteq Alive /\ list' = list
  BY DEF CallsInv, Shape, SameManager
<1>4. \A o \in list : object'[o].modem = object[o].modem
  BY <1>3 DEF SameManager
<1>5. ~ failed' => \A o \in list' : object'[o].modem = m => Current(o, p)'
  BY <1>2, <1>3, <1>4
<1> QED
  BY <1>1, <1>5 DEF ValueInv

\* Within A the message e is all that has come.
Receives(A, e) ==
    \A B, G : Plain(B) /\ Plain(G) /\ B \subseteq A /\ G \subseteq A =>
        /\ Has(queue', G) <=> Has(queue, G) \/ e \in G
        /\ Covered(queue', B, G) <=> e \notin B /\ (Covered(queue, B, G) \/ e \in G)

LEMMA GrowsReceives == ASSUME NEW e, Grows(e), NEW A PROVE Receives(A, e)
BY DEF Grows, Receives

\* A signal tells the value that the property has taken.
LEMMA ValueTold ==
    ASSUME CallsInv, SameManager, NEW m \in Modems, NEW p \in Properties,
           NEW e \in Signal(m, p), Receives(Telling(m, p), e), e.value = Val(p, modem'[m])
    PROVE  ValueInv(m, p)'
<1> DEFINE later == Drop(m) \cup Signal(m, p)
<1>1. /\ Plain(later) /\ \A v : Plain(SignalOf(m, p, v))
      /\ \A o, v : Plain(AnswerOf(o, p, v))
      /\ \A o : Plain(Signal(m, p) \cup Answer(o))
  BY PlainSets
<1>2. /\ later \subseteq Telling(m, p) /\ \A v : SignalOf(m, p, v) \subseteq Telling(m, p)
      /\ \A o \in Alive : object[o].modem = m =>
           /\ \A v : AnswerOf(o, p, v) \subseteq Telling(m, p)
           /\ Signal(m, p) \cup Answer(o) \subseteq Telling(m, p)
  BY Within
<1>3. e \in later
  OBVIOUS
<1>4. \A o, v : e \notin AnswerOf(o, p, v)
  BY DEF AnswerOf, Answer, Signal
<1> HIDE DEF later
<1>5. ASSUME NEW v \in BOOLEAN, v # Val(p, modem'[m])
      PROVE  /\ Covered(queue', SignalOf(m, p, v), later)
             /\ \A o \in Alive : object[o].modem = m => Covered(queue', AnswerOf(o, p, v), later)
  <2>1. e \notin SignalOf(m, p, v)
    BY <1>5 DEF SignalOf
  <2> QED
    BY <1>1, <1>2, <1>3, <1>4, <2>1 DEF Receives
<1>6. DOMAIN object' = Alive /\ \A o \in Alive : object'[o].modem = object[o].modem
  BY DEF SameManager
<1>7. ASSUME NEW v \in BOOLEAN, v # Val(p, modem'[m]) PROVE Latest(m, p, v)'
  BY <1>5, <1>6, <1>7 DEF Latest, later, Alive
<1>8. list' \subseteq Alive
  BY DEF CallsInv, Shape, SameManager
<1>9. ASSUME NEW o \in list', object'[o].modem = m PROVE Current(o, p)'
  <2>1. o \in Alive /\ object[o].modem = m
    BY <1>6, <1>8, <1>9
  <2> DEFINE B == Signal(m, p) \cup Answer(o)
  <2>2. Plain(B) /\ B \subseteq Telling(m, p) /\ e \in B
    BY <1>1, <1>2, <2>1
  <2> HIDE DEF B
  <2>3. Has(queue', B)
    BY <2>2 DEF Receives
  <2> QED
    BY <1>9, <2>3 DEF Current, B
<1> QED
  BY <1>7, <1>9 DEF ValueInv

\* The end of a modem, as the last that waits, is behind all that speaks of it.
LEMMA Dropped ==
    ASSUME CallsInv, SameManager, NEW m \in Modems, NEW e \in Drop(m), Grows(e)
    PROVE  Leaving(m)' /\ \A p \in Properties : ValueInv(m, p)'
<1>1. /\ Plain(Drop(m)) /\ Plain(Naming(m)) /\ \A p : Plain(Signal(m, p))
      /\ \A o : Plain(Answer(o))
      /\ \A p : Plain(Drop(m) \cup Signal(m, p)) /\ \A v : Plain(SignalOf(m, p, v))
      /\ \A o, p, v : Plain(AnswerOf(o, p, v))
  BY PlainSets
<1>2. /\ e \notin Naming(m) /\ \A p : e \notin Signal(m, p)
      /\ \A o : e \notin Answer(o)
      /\ \A p, v : e \notin SignalOf(m, p, v)
      /\ \A o, p, v : e \notin AnswerOf(o, p, v)
  <2>1. e.msg \in {"NameOwnerChanged", "ModemRemoved"}
    BY DEF Drop, Owner, Gone
  <2> QED
    BY <2>1, Kinds
<1>3. Has(queue', Drop(m))
  BY <1>1 DEF Grows
<1>4. Leaving(m)'
  BY <1>1, <1>2, <1>3 DEF Grows, Leaving
<1>5. ASSUME NEW p \in Properties, NEW v PROVE Latest(m, p, v)'
  BY <1>1, <1>2 DEF Grows, Latest
<1>6. ASSUME NEW p \in Properties, NEW o, object'[o].modem = m PROVE Current(o, p)'
  BY <1>3, <1>6 DEF Current
<1> QED
  BY <1>4, <1>5, <1>6 DEF ValueInv

\* Nothing that matters has come.
LEMMA WorldKept ==
    ASSUME IInv, SameManager, Stays, running' = running, modem' = modem,
           failed => failed', ~ running => calls' = {},
           GetModems \in calls => GetModems \in calls' \/ failed',
           \A o \in list : GetProperties(o) \in calls =>
              GetProperties(o) \in calls' \/ failed' \/ modem[object[o].modem] = "absent"
    PROVE  WorldInv'
<1>1. CallsInv /\ WorldInv
  BY DEF IInv
<1>2. \A A : Spares(A)
  BY StaysSpares
<1>3. NameInv' /\ ServeInv'
  <2>1. \A m \in Modems : ~ running => modem'[m] = "absent"
    BY <1>1 DEF WorldInv, NameInv
  <2> QED
    BY <1>1, <1>2, <2>1, ServeKept DEF WorldInv
<1>4. ASSUME NEW m \in Modems PROVE PlaceInv(m)'
  BY <1>1, <1>2, PlaceKept DEF WorldInv
<1>5. ASSUME NEW m \in Modems, NEW p \in Properties PROVE ValueInv(m, p)'
  <2>1. ValueInv(m, p) /\ PlaceInv(m)
    BY <1>1 DEF WorldInv
  <2> QED
    BY <1>1, <1>2, <2>1, ValueKept
<1> QED
  BY <1>3, <1>4, <1>5 DEF WorldInv

-----------------------------------------------------------------------------
(* What oFono and the bus do keeps the invariant.                          *)

LEMMA ManagerSame ==
    ASSUME UNCHANGED <<managerVars, object>> PROVE SameManager
BY DEF managerVars, SameManager, Alive

LEMMA WorldStart ==
    ASSUME IInv, Start, UNCHANGED <<managerVars, object>> PROVE WorldInv'
<1> DEFINE e == NameOwnerChanged(TRUE)
<1>1. /\ CallsInv /\ NameInv /\ ServeInv /\ SameManager
      /\ \A m \in Modems : PlaceInv(m)
  BY ManagerSame DEF IInv, WorldInv
<1>2. e \in Message /\ e.msg = "NameOwnerChanged" /\ e.up = TRUE
  BY MessageMade
<1>3. Grows(e)
  BY <1>1, <1>2, StartSays, OneGrows
<1>4. ~ running /\ running' = TRUE
  BY DEF Start
<1>5. \A m \in Modems : modem[m] = "absent" /\ Leaving(m)
  BY <1>1, <1>4 DEF NameInv, PlaceInv
<1> HIDE DEF e
<1>6. e \in Owner(TRUE) /\ e \notin Owner(FALSE) /\ e \in Owners
  BY <1>2 DEF Owner, Owners
<1>7. /\ \A up : Plain(Owner(up))
      /\ Plain(Owners)
  BY PlainSets
<1>8. NameInv'
  <2>1. Covered(queue', Owner(FALSE), Owner(TRUE))
    BY <1>3, <1>6, <1>7 DEF Grows
  <2> QED
    BY <1>4, <2>1 DEF NameInv
<1>9. Has(queue', Owners)
  BY <1>3, <1>6, <1>7 DEF Grows
<1>10. ServeInv'
  <2>1. list \subseteq Alive
    BY <1>1 DEF CallsInv, Shape
  <2>2. \A a, b \in list' : object'[a].modem = object'[b].modem => a = b
    BY <1>1, <2>1 DEF ServeInv, SameManager
  <2>3. list' # {} => proxy'.current \/ proxy'.leaked
    BY <1>1 DEF ServeInv, SameManager
  <2> QED
    BY <1>9, <2>2, <2>3 DEF ServeInv
<1>11. ASSUME NEW m \in Modems PROVE PlaceInv(m)' /\ \A p \in Properties : ValueInv(m, p)'
  <2>1. \A p \in Properties : e \notin Telling(m, p)
    BY <1>2, <1>6 DEF Telling, Drop, Gone, Signal, Answers, Answer
  <2>2. Has(queue, Drop(m)) => Has(queue', Drop(m))
    BY <1>3, PlainSets DEF Grows
  <2>3. /\ e \notin Naming(m) /\ e \notin Drop(m) /\ \A p : e \notin Signal(m, p)
        /\ \A o : e \notin Answer(o)
    BY <1>2, <1>6 DEF Drop, Gone, Signal, Answer, Naming
  <2>4. Leaving(m)'
    <3>1. /\ Plain(Drop(m)) /\ Plain(Naming(m)) /\ \A p : Plain(Signal(m, p))
          /\ \A o : Plain(Answer(o))
      BY PlainSets
    <3>2. Leaving(m)
      BY <1>5
    <3>3. list \subseteq Alive
      BY <1>1 DEF CallsInv, Shape
    <3>4. Listed(m)' <=> Listed(m)
      BY <1>1, <3>3 DEF Listed, SameManager
    <3>5. /\ Covered(queue', Naming(m), Drop(m))
          /\ \A p \in Properties : Covered(queue', Signal(m, p), Drop(m))
          /\ \A o \in Alive : object[o].modem = m => Covered(queue', Answer(o), Drop(m))
      BY <1>3, <2>3, <3>1, <3>2 DEF Grows, Leaving
    <3> QED
      BY <1>1, <2>2, <3>2, <3>4, <3>5 DEF Leaving, SameManager, Alive
  <2>5. PlaceInv(m)'
    BY <1>9, <2>4 DEF PlaceInv, Coming
  <2>6. ASSUME NEW p \in Properties PROVE ValueInv(m, p)'
    <3>1. Spares(Telling(m, p))
      BY <1>3, <2>1, GrowsSpares
    <3>2. ASSUME NEW v PROVE Latest(m, p, v)'
      <4>1. Latest(m, p, v)
        BY <1>5, LeavingValue
      <4> QED
        BY <1>1, <3>1, <4>1, LatestKept
    <3>3. ASSUME NEW o \in list', object'[o].modem = m PROVE Current(o, p)'
      <4>1. o \in list /\ object[o].modem = m
        BY <1>1, <3>3 DEF SameManager, CallsInv, Shape
      <4>2. Has(queue', Drop(m))
        BY <1>5, <2>2, <4>1, LeavingValue
      <4> QED
        BY <3>3, <4>2 DEF Current
    <3> QED
      BY <3>2, <3>3 DEF ValueInv
  <2> QED
    BY <2>5, <2>6
<1> QED
  BY <1>8, <1>10, <1>11 DEF WorldInv

LEMMA WorldStop ==
    ASSUME IInv, Stop, UNCHANGED <<managerVars, object>> PROVE WorldInv'
<1> DEFINE e == NameOwnerChanged(FALSE)
<1>1. CallsInv /\ NameInv /\ ServeInv /\ SameManager
  BY ManagerSame DEF IInv, WorldInv
<1>2. e \in Message /\ e.msg = "NameOwnerChanged" /\ e.up = FALSE
  BY MessageMade
<1>3. Grows(e)
  BY <1>1, <1>2, StopSays, OneGrows
<1>4. running' = FALSE /\ calls' = {} /\ \A m \in Modems : modem'[m] = "absent"
  BY DEF Stop
<1> HIDE DEF e
<1>5. e \in Owner(FALSE) /\ e \notin Owner(TRUE)
  BY <1>2 DEF Owner
<1>6. NameInv'
  <2>1. Covered(queue', Owner(TRUE), Owner(FALSE))
    BY <1>3, <1>5, PlainSets DEF Grows
  <2> QED
    BY <1>4, <2>1 DEF NameInv
<1>7. ServeInv'
  <2>1. list \subseteq Alive
    BY <1>1 DEF CallsInv, Shape
  <2>2. \A a, b \in list' : object'[a].modem = object'[b].modem => a = b
    BY <1>1, <2>1 DEF ServeInv, SameManager
  <2>3. list' # {} => proxy'.current \/ proxy'.leaked
    BY <1>1 DEF ServeInv, SameManager
  <2> QED
    BY <1>4, <2>2, <2>3 DEF ServeInv
<1>8. ASSUME NEW m \in Modems PROVE PlaceInv(m)' /\ \A p \in Properties : ValueInv(m, p)'
  <2>1. e \in Drop(m)
    BY <1>5 DEF Drop
  <2>2. Leaving(m)' /\ \A p \in Properties : ValueInv(m, p)'
    BY <1>1, <1>3, <2>1, Dropped
  <2> QED
    BY <1>4, <2>2 DEF PlaceInv
<1> QED
  BY <1>6, <1>7, <1>8 DEF WorldInv

\* A modem that e is not about stays as it was.
LEMMA OthersKept ==
    ASSUME CallsInv, WorldInv, SameManager, NEW e, Grows(e), NEW n \in Modems, e \notin About(n),
           modem'[n] = modem[n], failed' = failed,
           GetModems \in calls => GetModems \in calls',
           \A o \in list : object[o].modem = n /\ GetProperties(o) \in calls =>
              GetProperties(o) \in calls'
    PROVE  PlaceInv(n)' /\ \A p \in Properties : ValueInv(n, p)'
<1>1. Spares(About(n)) /\ PlaceInv(n) /\ \A p \in Properties : ValueInv(n, p)
  BY GrowsSpares DEF WorldInv
<1>2. PlaceInv(n)'
  BY <1>1, PlaceKept
<1>3. ASSUME NEW p \in Properties PROVE ValueInv(n, p)'
  <2>1. Spares(Telling(n, p))
    BY <1>1, Within, SparesLess
  <2> QED
    BY <1>1, <2>1, ValueKept
<1> QED
  BY <1>2, <1>3

LEMMA WorldAppears ==
    ASSUME IInv, NEW m \in Modems, ModemAppears(m), UNCHANGED <<managerVars, object, failed>>
    PROVE  WorldInv'
<1> DEFINE e == ModemAdded(m)
<1>1. CallsInv /\ WorldInv /\ SameManager
  BY ManagerSame DEF IInv
<1>2. e \in Message /\ e.msg = "ModemAdded" /\ e.modem = m
  BY MessageMade
<1>3. Grows(e)
  BY <1>1, <1>2, AppearsSays, OneGrows
<1>4. /\ running /\ running' = running /\ calls' = calls /\ modem[m] = "absent"
      /\ modem' = [modem EXCEPT ![m] = "off"] /\ modem \in [Modems -> States]
  BY <1>1 DEF ModemAppears, CallsInv, Shape
<1>5. modem'[m] = "off" /\ \A n \in Modems : n # m => modem'[n] = modem[n]
  BY <1>4
<1> HIDE DEF e
<1>6. /\ e \notin Owners \cup Proxies /\ \A n : e \notin Gone(n)
      /\ \A n, p : e \notin Signal(n, p) /\ \A o : e \notin Answer(o)
      /\ \A n : e \in Naming(n) <=> n = m
  BY <1>2 DEF Owners, Proxies, Owner, Ready, Gone, Signal, Answer, Naming
<1>7. \A n : n # m => e \notin About(n)
  BY <1>6 DEF About, Heading, Signals, Answers
<1>8. \A p : e \notin Telling(m, p)
  BY <1>6 DEF Telling, Drop, Owners, Answers
<1>9. NameInv' /\ ServeInv'
  <2>1. Spares(Owners \cup Proxies)
    BY <1>3, <1>6, GrowsSpares
  <2> QED
    BY <1>1, <1>4, <2>1, ServeKept DEF WorldInv
<1>10. ASSUME NEW n \in Modems, n # m
       PROVE  PlaceInv(n)' /\ \A p \in Properties : ValueInv(n, p)'
  BY <1>1, <1>3, <1>4, <1>5, <1>7, <1>10, OthersKept
<1>11. PlaceInv(m)'
  <2>1. ~ Covered(queue', Naming(m), Gone(m))
    BY <1>3, <1>6, PlainSets DEF Grows
  <2> QED
    BY <1>5, <2>1 DEF PlaceInv, Coming
<1>12. ASSUME NEW p \in Properties PROVE ValueInv(m, p)'
  <2>1. Spares(Telling(m, p))
    BY <1>3, <1>8, GrowsSpares
  <2>2. Val(p, modem'[m]) = Val(p, modem[m])
    BY <1>4, <1>5 DEF Val, Powered
  <2>3. ValueInv(m, p) /\ PlaceInv(m)
    BY <1>1 DEF WorldInv
  <2> QED
    BY <1>1, <1>4, <2>1, <2>2, <2>3, ValueKept
<1> QED
  BY <1>9, <1>10, <1>11, <1>12 DEF WorldInv

LEMMA WorldDisappears ==
    ASSUME IInv, NEW m \in Modems, ModemDisappears(m), UNCHANGED <<managerVars, object, failed>>
    PROVE  WorldInv'
<1> DEFINE e == ModemRemoved(m)
<1>1. CallsInv /\ WorldInv /\ SameManager
  BY ManagerSame DEF IInv
<1>2. e \in Message /\ e.msg = "ModemRemoved" /\ e.modem = m
  BY MessageMade
<1>3. Grows(e) /\ calls' = calls \ Calling(m)
  BY <1>1, <1>2, DisappearsSays, OneGrows DEF Says
<1>4. /\ running /\ running' = running
      /\ modem' = [modem EXCEPT ![m] = "absent"] /\ modem \in [Modems -> States]
  BY <1>1 DEF ModemDisappears, CallsInv, Shape
<1>5. modem'[m] = "absent" /\ \A n \in Modems : n # m => modem'[n] = modem[n]
  BY <1>4
<1> HIDE DEF e
<1>6. /\ e \notin Owners \cup Proxies /\ \A n : e \in Gone(n) <=> n = m
      /\ \A n, p : e \notin Signal(n, p) /\ \A o : e \notin Answer(o)
      /\ \A n : e \notin Naming(n)
  BY <1>2 DEF Owners, Proxies, Owner, Ready, Gone, Signal, Answer, Naming
<1>7. \A n : n # m => e \notin About(n)
  BY <1>6 DEF About, Heading, Signals, Answers
<1>8. NameInv' /\ ServeInv'
  <2>1. Spares(Owners \cup Proxies)
    BY <1>3, <1>6, GrowsSpares
  <2> QED
    BY <1>1, <1>4, <2>1, ServeKept DEF WorldInv
<1>9. ASSUME NEW n \in Modems, n # m
       PROVE  PlaceInv(n)' /\ \A p \in Properties : ValueInv(n, p)'
  <2>1. GetModems \in calls => GetModems \in calls'
    BY <1>3 DEF Calling
  <2>2. \A o \in list : object[o].modem = n /\ GetProperties(o) \in calls =>
              GetProperties(o) \in calls'
    BY <1>3, <1>9 DEF Calling, GetProperties
  <2> QED
    BY <1>1, <1>3, <1>5, <1>7, <1>9, <2>1, <2>2, OthersKept
<1>10. Leaving(m)' /\ \A p \in Properties : ValueInv(m, p)'
  <2>1. e \in Drop(m)
    BY <1>6 DEF Drop
  <2> QED
    BY <1>1, <1>3, <2>1, Dropped
<1>11. PlaceInv(m)'
  BY <1>5, <1>10 DEF PlaceInv
<1> QED
  BY <1>8, <1>9, <1>10, <1>11 DEF WorldInv


LEMMA PowersReach ==
    ASSUME CallsInv, NEW m \in Modems, ModemPowers(m), NEW a, NEW f,
           a = PropertyChanged(m, "Online", FALSE),
           f = PropertyChanged(m, "Powered", Powered(modem'[m])), NEW A
    PROVE  /\ a \notin A /\ f \notin A => Spares(A)
           /\ a \notin A => Receives(A, f)
           /\ modem[m] # "online" /\ f \notin A => Spares(A)
           /\ modem[m] = "online" /\ f \notin A => Receives(A, a)
<1> DEFINE es == Powering(m)
<1>1. es \in Seq(Message) /\ Says(es, {})
  BY PowersSays
<1>2. /\ \A G : Has(es, G) <=> \/ modem[m] = "online" /\ a \in G
                               \/ f \in G
      /\ \A B, G : Covered(es, B, G)
                   <=> f \notin B /\ (modem[m] = "online" /\ a \in B => f \in G)
  <2>1. CASE modem[m] = "online"
    <3>1. es = <<a>> \o <<f>>
      BY <2>1 DEF Powering
    <3> HIDE DEF es
    <3> DEFINE S == {a, f}
               r == <<a>>
               t == <<f>>
    <3>2. r \in Seq(S) /\ t \in Seq(S)
      OBVIOUS
    <3>3. /\ \A G : (Has(r, G) <=> a \in G) /\ (Has(t, G) <=> f \in G)
          /\ \A B, G : (Covered(r, B, G) <=> a \notin B) /\ (Covered(t, B, G) <=> f \notin B)
      BY One
    <3>4. es = r \o t
      BY <3>1
    <3> HIDE DEF S, r, t
    <3>5. /\ \A G : Has(r \o t, G) <=> Has(r, G) \/ Has(t, G)
          /\ \A B, G : Covered(r \o t, B, G)
                       <=> Covered(t, B, G) /\ (Covered(r, B, G) \/ Has(t, G))
      BY <3>2, Sent
    <3> QED
      BY <2>1, <3>3, <3>4, <3>5
  <2>2. CASE modem[m] # "online"
    <3>1. es = <<f>>
      BY <2>2 DEF Powering
    <3> HIDE DEF es
    <3> QED
      BY <2>2, <3>1, One
  <2> QED
    BY <2>1, <2>2
<1> HIDE DEF es
<1>3. ASSUME NEW B, NEW G, Plain(B), Plain(G)
      PROVE  /\ Has(queue', G) <=> \/ Has(queue, G)
                                   \/ modem[m] = "online" /\ a \in G
                                   \/ f \in G
             /\ Covered(queue', B, G)
                <=> /\ f \notin B /\ (modem[m] = "online" /\ a \in B => f \in G)
                    /\ \/ Covered(queue, B, G)
                       \/ modem[m] = "online" /\ a \in G
                       \/ f \in G
  <2>1. /\ Has(queue', G) <=> Has(queue, G) \/ Has(es, G)
        /\ Covered(queue', B, G)
           <=> Covered(es, B, G) /\ (Covered(queue, B, G) \/ Has(es, G))
    BY <1>1, <1>3, SaysGrows
  <2> QED
    BY <1>2, <2>1
<1>4. ASSUME a \notin A, f \notin A PROVE Spares(A)
  BY <1>3, <1>4 DEF Spares
<1>5. ASSUME a \notin A PROVE Receives(A, f)
  BY <1>3, <1>5 DEF Receives
<1>6. ASSUME modem[m] # "online", f \notin A PROVE Spares(A)
  BY <1>3, <1>6 DEF Spares
<1>7. ASSUME modem[m] = "online", f \notin A PROVE Receives(A, a)
  BY <1>3, <1>7 DEF Receives
<1> QED
  BY <1>4, <1>5, <1>6, <1>7

LEMMA WorldPowers ==
    ASSUME IInv, NEW m \in Modems, ModemPowers(m), UNCHANGED <<managerVars, object, failed>>
    PROVE  WorldInv'
<1> DEFINE a == PropertyChanged(m, "Online", FALSE)
           v == Powered(modem'[m])
           f == PropertyChanged(m, "Powered", v)
<1>1. CallsInv /\ WorldInv /\ SameManager
  BY ManagerSame DEF IInv
<1>2. /\ a.msg = "PropertyChanged" /\ a.modem = m /\ a.prop = "Online" /\ a.value = FALSE
      /\ f.msg = "PropertyChanged" /\ f.modem = m /\ f.prop = "Powered"
      /\ f.value = Powered(modem'[m])
      /\ a \in Message /\ f \in Message
  <2>1. v \in BOOLEAN
    BY DEF Powered
  <2> HIDE DEF v
  <2>2. f \in Message
    BY <2>1, SignalMade
  <2>3. a \in Message
    BY SignalMade
  <2>4. f.value = v
    BY DEF PropertyChanged
  <2> QED
    BY <2>2, <2>3, <2>4 DEF PropertyChanged, v
<1>3. /\ running /\ running' = running /\ calls' = calls /\ modem[m] # "absent"
      /\ modem' = [modem EXCEPT ![m] = IF Powered(modem[m]) THEN "off" ELSE "offline"]
      /\ modem \in [Modems -> States]
  BY <1>1 DEF ModemPowers, CallsInv, Shape
<1>4. /\ modem'[m] = IF Powered(modem[m]) THEN "off" ELSE "offline"
      /\ \A n \in Modems : n # m => modem'[n] = modem[n]
  BY <1>3
<1>5. \A A : /\ a \notin A /\ f \notin A => Spares(A)
             /\ a \notin A => Receives(A, f)
             /\ modem[m] # "online" /\ f \notin A => Spares(A)
             /\ modem[m] = "online" /\ f \notin A => Receives(A, a)
  BY <1>1, PowersReach
<1> HIDE DEF a, f
<1>6. ASSUME NEW e \in {a, f}
      PROVE  /\ e \notin Owners \cup Proxies /\ \A n : e \notin Gone(n)
             /\ \A n : e \notin Naming(n) /\ \A o : e \notin Answer(o)
             /\ \A n, p : e \in Signal(n, p) <=> n = m /\ p = e.prop
  BY <1>2 DEF Owners, Proxies, Owner, Ready, Gone, Signal, Answer, Naming
<1>7. \A e \in {a, f} : \A n : n # m => e \notin About(n)
  BY <1>6 DEF About, Heading, Signals, Answers
<1>8. \A e \in {a, f} : e \notin Heading(m)
  BY <1>6 DEF Heading
<1>9. \A e \in {a, f} : \A p : e \in Telling(m, p) <=> p = e.prop
  BY <1>6 DEF Telling, Drop, Owners, Answers
<1>10. NameInv' /\ ServeInv'
  <2>1. Spares(Owners \cup Proxies)
    BY <1>5, <1>6
  <2> QED
    BY <1>1, <1>3, <2>1, ServeKept DEF WorldInv
<1>11. ASSUME NEW n \in Modems, n # m
       PROVE  PlaceInv(n)' /\ \A p \in Properties : ValueInv(n, p)'
  <2>1. /\ Spares(About(n)) /\ PlaceInv(n) /\ \A p \in Properties : ValueInv(n, p)
        /\ modem'[n] = modem[n]
    BY <1>1, <1>4, <1>5, <1>7, <1>11 DEF WorldInv
  <2>2. PlaceInv(n)'
    BY <1>1, <1>3, <2>1, PlaceKept
  <2>3. ASSUME NEW p \in Properties PROVE ValueInv(n, p)'
    <3>1. Spares(Telling(n, p))
      BY <2>1, Within, SparesLess
    <3> QED
      BY <1>1, <1>3, <2>1, <3>1, ValueKept
  <2> QED
    BY <2>2, <2>3
<1>12. PlaceInv(m)'
  <2>1. Spares(Heading(m))
    BY <1>5, <1>8
  <2>2. ~ failed' => Coming(m)
    BY <1>1, <1>3 DEF WorldInv, PlaceInv
  <2>3. ~ failed' => Coming(m)'
    BY <1>1, <1>3, <2>1, <2>2, ComingKept
  <2> QED
    BY <1>4, <2>3 DEF PlaceInv
<1>13. ValueInv(m, "Powered")'
  <2>1. Receives(Telling(m, "Powered"), f)
    BY <1>2, <1>5, <1>9
  <2>2. f \in Signal(m, "Powered") /\ f.value = Val("Powered", modem'[m])
    BY <1>2, <1>6 DEF Val
  <2> QED
    BY <1>1, <2>1, <2>2, ValueTold DEF Properties
<1>14. ValueInv(m, "Online")'
  <2>1. f \notin Telling(m, "Online")
    BY <1>2, <1>9
  <2>2. CASE modem[m] = "online"
    <3>1. Receives(Telling(m, "Online"), a)
      BY <1>5, <2>1, <2>2
    <3>2. a \in Signal(m, "Online") /\ a.value = Val("Online", modem'[m])
      BY <1>2, <1>4, <1>6, <2>2 DEF Val
    <3> QED
      BY <1>1, <3>1, <3>2, ValueTold DEF Properties
  <2>3. CASE modem[m] # "online"
    <3>1. Spares(Telling(m, "Online"))
      BY <1>5, <2>1, <2>3
    <3>2. Val("Online", modem'[m]) = Val("Online", modem[m])
      BY <1>4, <2>3 DEF Val
    <3>3. "Online" \in Properties
      BY DEF Properties
    <3>4. ValueInv(m, "Online") /\ PlaceInv(m)
      BY <1>1, <3>3 DEF WorldInv
    <3> QED
      BY <1>1, <1>3, <3>1, <3>2, <3>3, <3>4, ValueKept
  <2> QED
    BY <2>2, <2>3
<1>15. \A p \in Properties : ValueInv(m, p)'
  BY <1>13, <1>14 DEF Properties
<1> QED
  BY <1>10, <1>11, <1>12, <1>15 DEF WorldInv

LEMMA WorldModems ==
    ASSUME IInv, AnswerGetModems, UNCHANGED <<managerVars, object, failed>>
    PROVE  WorldInv'
<1> DEFINE e == Reply(GetModems, TRUE, Present, "absent")
<1>1. CallsInv /\ WorldInv /\ SameManager
  BY ManagerSame DEF IInv
<1>2. /\ e \in Message /\ e.msg = "Reply" /\ e.call = GetModems /\ e.ok
      /\ e.modems = Present /\ Says(<<e>>, {GetModems})
  BY <1>1, ModemsSays
<1>3. Grows(e) /\ calls' = calls \ {GetModems}
  BY <1>1, <1>2, OneGrows DEF Says
<1>4. running' = running /\ modem' = modem
  BY DEF AnswerGetModems
<1> HIDE DEF e
<1>5. /\ e \notin Owners \cup Proxies /\ \A n : e \notin Gone(n)
      /\ \A n, p : e \notin Signal(n, p)
      /\ \A n \in Modems : e \in Naming(n) <=> modem[n] # "absent"
  BY <1>2 DEF Owners, Proxies, Owner, Ready, Gone, Signal, Naming, Present
<1>6. \A o : GetProperties(o) # GetModems /\ e \notin Answer(o)
  BY <1>2, CallMade DEF Answer
<1>7. NameInv' /\ ServeInv'
  <2>1. Spares(Owners \cup Proxies)
    BY <1>3, <1>5, GrowsSpares
  <2>2. NameInv /\ ServeInv
    BY <1>1 DEF WorldInv
  <2>3. (~ running => calls' = {}) /\ \A m \in Modems : ~ running => modem'[m] = "absent"
    BY <1>3, <1>4, <2>2 DEF NameInv
  <2> QED
    BY <1>1, <1>4, <2>1, <2>2, <2>3, ServeKept
<1>8. ASSUME NEW m \in Modems PROVE PlaceInv(m)'
  <2>1. CASE modem[m] = "absent"
    <3>1. e \notin About(m)
      BY <1>5, <1>6, <2>1 DEF About, Heading, Signals, Answers
    <3>2. Spares(About(m)) /\ PlaceInv(m)
      BY <1>1, <1>3, <3>1, GrowsSpares DEF WorldInv
    <3> QED
      BY <1>1, <1>4, <2>1, <3>2, PlaceKept
  <2>2. CASE modem[m] # "absent"
    <3>1. ~ Covered(queue', Naming(m), Gone(m))
      BY <1>3, <1>5, <2>2, PlainSets DEF Grows
    <3> QED
      BY <1>4, <2>2, <3>1 DEF PlaceInv, Coming
  <2> QED
    BY <2>1, <2>2
<1>9. ASSUME NEW m \in Modems, NEW p \in Properties PROVE ValueInv(m, p)'
  <2>1. e \notin Telling(m, p)
    BY <1>5, <1>6 DEF Telling, Drop, Owners, Answers
  <2>2. Spares(Telling(m, p)) /\ ValueInv(m, p) /\ PlaceInv(m)
    BY <1>1, <1>3, <2>1, GrowsSpares DEF WorldInv
  <2>3. \A o : GetProperties(o) \in calls => GetProperties(o) \in calls'
    BY <1>3, <1>6
  <2> QED
    BY <1>1, <1>4, <2>2, <2>3, ValueKept
<1> QED
  BY <1>7, <1>8, <1>9 DEF WorldInv

LEMMA WorldProperties ==
    ASSUME IInv, AnswerGetProperties, UNCHANGED <<managerVars, object, failed>>
    PROVE  WorldInv'
<1>1. CallsInv /\ WorldInv /\ SameManager
  BY ManagerSame DEF IInv
<1>2. PICK o \in Alive, e \in Message :
        /\ e.msg = "Reply" /\ e.call = GetProperties(o)
        /\ e.ok = (modem[object[o].modem] # "absent")
        /\ e.state = modem[object[o].modem]
        /\ Says(<<e>>, {GetProperties(o)})
  BY <1>1, PropertiesSays
<1>3. Grows(e) /\ calls' = calls \ {GetProperties(o)} /\ GetProperties(o) \in calls
  BY <1>1, <1>2, OneGrows DEF Says
<1>4. running' = running /\ modem' = modem
  BY DEF AnswerGetProperties
<1> DEFINE d == object[o].modem
<1>5. d \in Modems /\ o \in Objects
  BY <1>1 DEF CallsInv, Shape, Well, Object, Alive
<1>6. NameInv /\ (~ running => calls' = {})
  BY <1>1, <1>3 DEF WorldInv, NameInv
<1>7. GetModems \in calls => GetModems \in calls'
  BY <1>3, CallMade
<1>8. \A x : GetProperties(x) \in calls => GetProperties(x) \in calls' \/ x = o
  BY <1>3 DEF GetProperties
<1>9. CASE modem[d] = "absent"
  <2>1. e \in Dull
    BY <1>2, <1>9 DEF Dull
  <2>2. Stays
    BY <1>1, <1>3, <2>1, DullStays
  <2> QED
    BY <1>1, <1>4, <1>6, <1>7, <1>8, <1>9, <2>2, WorldKept
<1>10. CASE modem[d] # "absent"
  <2>1. /\ e \notin Owners \cup Proxies /\ \A n : e \notin Gone(n)
        /\ \A n, p : e \notin Signal(n, p)
    BY <1>2 DEF Owners, Proxies, Owner, Ready, Gone, Signal
  <2>2. \A n : e \notin Naming(n)
    BY <1>2, CallMade DEF Naming
  <2>3. \A x : e \in Answer(x) <=> x = o
    <3>1. e \in Message /\ e.msg = "Reply" /\ e.ok /\ e.call = GetProperties(o)
      BY <1>2, <1>10
    <3>2. \A x : GetProperties(x) = GetProperties(o) <=> x = o
      BY DEF GetProperties
    <3> QED
      BY <3>1, <3>2 DEF Answer
  <2>4. ASSUME NEW x, NEW p, NEW v, v # Val(p, modem[d]) PROVE e \notin AnswerOf(x, p, v)
    BY <1>2, <2>4 DEF AnswerOf
  <2>5. NameInv' /\ ServeInv'
    <3>1. Spares(Owners \cup Proxies)
      BY <1>3, <2>1, GrowsSpares
    <3>2. ServeInv /\ \A m \in Modems : ~ running => modem'[m] = "absent"
      BY <1>1, <1>4, <1>6 DEF WorldInv, NameInv
    <3> QED
      BY <1>1, <1>4, <1>6, <3>1, <3>2, ServeKept
  <2>6. ASSUME NEW n \in Modems, n # d
        PROVE  PlaceInv(n)' /\ \A p \in Properties : ValueInv(n, p)'
    <3>1. e \notin About(n)
      BY <2>1, <2>2, <2>3, <2>6 DEF About, Heading, Signals, Answers
    <3>2. \A x \in list : object[x].modem = n /\ GetProperties(x) \in calls =>
              GetProperties(x) \in calls'
      BY <1>8, <2>6
    <3> QED
      BY <1>1, <1>3, <1>4, <1>7, <3>1, <3>2, OthersKept
  <2>7. PlaceInv(d)'
    <3>1. Spares(Heading(d))
      BY <1>3, <2>1, <2>2, GrowsSpares DEF Heading
    <3>2. ~ failed' => Coming(d)
      BY <1>1, <1>5, <1>10 DEF WorldInv, PlaceInv
    <3>3. ~ failed' => Coming(d)'
      BY <1>1, <1>5, <1>7, <3>1, <3>2, ComingKept
    <3> QED
      BY <1>4, <1>10, <3>3 DEF PlaceInv
  <2>8. ASSUME NEW p \in Properties PROVE ValueInv(d, p)'
    <3>1. \A v \in BOOLEAN : v # Val(p, modem[d]) => Latest(d, p, v)
      BY <1>1, <1>5 DEF WorldInv, ValueInv
    <3>2. ASSUME NEW v \in BOOLEAN, v # Val(p, modem'[d]) PROVE Latest(d, p, v)'
      <4> DEFINE later == Drop(d) \cup Signal(d, p)
      <4>1. /\ Plain(later) /\ Plain(SignalOf(d, p, v)) /\ \A x : Plain(AnswerOf(x, p, v))
        BY PlainSets
      <4>2. e \notin SignalOf(d, p, v) /\ \A x : e \notin AnswerOf(x, p, v)
        BY <1>4, <2>1, <2>4, <3>2 DEF SignalOf
      <4>3. Latest(d, p, v)
        BY <1>4, <3>1, <3>2
      <4>4. /\ Covered(queue, SignalOf(d, p, v), later)
            /\ \A x \in Alive : object[x].modem = d => Covered(queue, AnswerOf(x, p, v), later)
        BY <4>3 DEF Latest
      <4> HIDE DEF later
      <4>5. /\ Covered(queue', SignalOf(d, p, v), later)
            /\ \A x \in Alive : object[x].modem = d => Covered(queue', AnswerOf(x, p, v), later)
        BY <1>3, <4>1, <4>2, <4>4 DEF Grows
      <4> QED
        BY <1>1, <4>5 DEF Latest, later, SameManager, Alive
    <3>3. ASSUME ~ failed', NEW x \in list', object'[x].modem = d PROVE Current(x, p)'
      <4>1. x \in list /\ x \in Alive /\ object[x].modem = d /\ Of(object'[x], p) = Of(object[x], p)
        BY <1>1, <3>3 DEF SameManager, CallsInv, Shape
      <4> DEFINE B == Signal(d, p) \cup Answer(x)
      <4>2. Plain(Drop(d)) /\ Plain(B)
        BY PlainSets
      <4>3. x = o => e \in B
        BY <2>3
      <4>4. Current(x, p)
        BY <1>1, <1>5, <3>3, <4>1 DEF WorldInv, ValueInv
      <4>5. \/ Has(queue, Drop(d)) \/ GetProperties(x) \in calls \/ Has(queue, B)
            \/ Of(object[x], p) = {Val(p, modem[d])}
        BY <4>1, <4>4 DEF Current
      <4> HIDE DEF B, d
      <4>6. \/ Has(queue', Drop(d)) \/ GetProperties(x) \in calls' \/ Has(queue', B)
            \/ Of(object'[x], p) = {Val(p, modem'[d])}
        BY <1>3, <1>4, <1>8, <4>1, <4>2, <4>3, <4>5 DEF Grows
      <4> QED
        BY <3>3, <4>6 DEF Current, B
    <3> QED
      BY <3>2, <3>3 DEF ValueInv
  <2> QED
    BY <1>5, <2>5, <2>6, <2>7, <2>8 DEF WorldInv
<1> QED
  BY <1>9, <1>10


LEMMA WorldSetting ==
    ASSUME IInv, AnswerSetProperty, UNCHANGED <<managerVars, object, failed>>
    PROVE  WorldInv'
<1>1. CallsInv /\ WorldInv /\ SameManager
  BY ManagerSame DEF IInv
<1>2. PICK o \in Alive, on \in BOOLEAN, es \in Seq(Message) :
        LET m == object[o].modem IN
        /\ Says(es, {SetProperty(o, on)})
        /\ \/ /\ modem' = modem
              /\ \A G : Plain(G) => ~ Has(es, G)
           \/ /\ Powered(modem[m])
              /\ modem' = [modem EXCEPT ![m] = IF on THEN "online" ELSE "offline"]
              /\ \A B, G : Plain(B) /\ Plain(G) =>
                   /\ Has(es, G) <=> PropertyChanged(m, "Online", on) \in G
                   /\ Covered(es, B, G) <=> PropertyChanged(m, "Online", on) \notin B
  BY <1>1, SettingSays
<1> DEFINE m == object[o].modem
           f == PropertyChanged(m, "Online", on)
<1>3. m \in Modems /\ modem \in [Modems -> States]
  BY <1>1 DEF CallsInv, Shape, Well, Object, Alive
<1>4. /\ running' = running /\ SetProperty(o, on) \in calls
      /\ calls' = calls \ {SetProperty(o, on)}
  BY <1>2 DEF AnswerSetProperty, Says
<1>5. NameInv /\ (~ running => calls' = {})
  BY <1>1, <1>4 DEF WorldInv, NameInv
<1>6. /\ GetModems \in calls => GetModems \in calls'
      /\ \A x : GetProperties(x) \in calls => GetProperties(x) \in calls'
  BY <1>4 DEF GetModems, GetProperties, SetProperty
<1>7. \A B, G : Plain(B) /\ Plain(G) =>
        /\ Has(queue', G) <=> Has(queue, G) \/ Has(es, G)
        /\ Covered(queue', B, G) <=> Covered(es, B, G) /\ (Covered(queue, B, G) \/ Has(es, G))
  BY <1>1, <1>2, SaysGrows
<1>8. CASE modem' = modem /\ \A G : Plain(G) => ~ Has(es, G)
  <2>1. \A B, G : Plain(B) => Covered(es, B, G)
    BY <1>8, Free
  <2>2. Stays
    BY <1>7, <1>8, <2>1 DEF Stays
  <2> QED
    BY <1>1, <1>4, <1>5, <1>6, <1>8, <2>2, WorldKept
<1>9. CASE /\ Powered(modem[m])
           /\ modem' = [modem EXCEPT ![m] = IF on THEN "online" ELSE "offline"]
           /\ \A B, G : Plain(B) /\ Plain(G) =>
                /\ Has(es, G) <=> f \in G
                /\ Covered(es, B, G) <=> f \notin B
  <2>1. f.msg = "PropertyChanged" /\ f.modem = m /\ f.prop = "Online" /\ f.value = on
    BY DEF PropertyChanged
  <2>2. f \in Message
    BY <1>3, SignalMade
  <2> HIDE DEF f
  <2>3. Grows(f)
    BY <1>7, <1>9 DEF Grows
  <2>4. /\ modem'[m] = IF on THEN "online" ELSE "offline"
        /\ \A n \in Modems : n # m => modem'[n] = modem[n]
        /\ modem[m] # "absent" /\ Powered(modem[m])
    BY <1>3, <1>9 DEF Powered
  <2>5. /\ f \notin Owners \cup Proxies /\ \A n : f \notin Gone(n)
        /\ \A n : f \notin Naming(n) /\ \A x : f \notin Answer(x)
        /\ \A n, p : f \in Signal(n, p) <=> n = m /\ p = "Online"
    BY <2>1, <2>2 DEF Owners, Proxies, Owner, Ready, Gone, Signal, Answer, Naming
  <2>6. running = TRUE
    BY <1>1, <1>5, <2>4, <1>3 DEF NameInv, CallsInv, Shape
  <2>7. NameInv' /\ ServeInv'
    <3>1. Spares(Owners \cup Proxies)
      BY <2>3, <2>5, GrowsSpares
    <3> QED
      BY <1>1, <1>4, <1>5, <2>6, <3>1, ServeKept DEF WorldInv
  <2>8. ASSUME NEW n \in Modems, n # m
        PROVE  PlaceInv(n)' /\ \A p \in Properties : ValueInv(n, p)'
    <3>1. f \notin About(n)
      BY <2>5, <2>8 DEF About, Heading, Signals, Answers
    <3> QED
      BY <1>1, <1>6, <2>3, <2>4, <2>8, <3>1, OthersKept
  <2>9. PlaceInv(m)'
    <3>1. Spares(Heading(m))
      BY <2>3, <2>5, GrowsSpares DEF Heading
    <3>2. ~ failed' => Coming(m)
      BY <1>1, <1>3, <2>4 DEF WorldInv, PlaceInv
    <3>3. ~ failed' => Coming(m)'
      BY <1>1, <1>3, <1>6, <3>1, <3>2, ComingKept
    <3> QED
      BY <2>4, <3>3 DEF PlaceInv
  <2>10. ValueInv(m, "Online")'
    <3>1. Receives(Telling(m, "Online"), f)
      BY <2>3, GrowsReceives
    <3>2. f \in Signal(m, "Online") /\ f.value = Val("Online", modem'[m])
      BY <2>1, <2>4, <2>5 DEF Val
    <3>3. "Online" \in Properties
      BY DEF Properties
    <3> QED
      BY <1>1, <1>3, <3>1, <3>2, <3>3, ValueTold
  <2>11. ValueInv(m, "Powered")'
    <3>1. f \notin Telling(m, "Powered")
      <4>1. f \notin Signal(m, "Powered")
        BY <2>5
      <4>2. f \notin Drop(m)
        BY <2>5 DEF Drop, Owners
      <4>3. f \notin Answers(m)
        BY <2>5 DEF Answers
      <4> QED
        BY <4>1, <4>2, <4>3 DEF Telling
    <3>2. Spares(Telling(m, "Powered"))
      BY <2>3, <3>1, GrowsSpares
    <3>3. Val("Powered", modem'[m]) = Val("Powered", modem[m])
      BY <2>4 DEF Val, Powered
    <3>4. "Powered" \in Properties
      BY DEF Properties
    <3>5. ValueInv(m, "Powered") /\ PlaceInv(m)
      BY <1>1, <1>3, <3>4 DEF WorldInv
    <3> QED
      BY <1>1, <1>3, <1>6, <3>2, <3>3, <3>4, <3>5, ValueKept
  <2>12. \A p \in Properties : ValueInv(m, p)'
    BY <2>10, <2>11 DEF Properties
  <2> QED
    BY <2>7, <2>8, <2>9, <2>12 DEF WorldInv
<1> QED
  BY <1>2, <1>8, <1>9

LEMMA WorldFail ==
    ASSUME IInv, NEW c \in Call, Fail(c), failed' = (failed \/ c.call # "SetProperty"),
           UNCHANGED <<managerVars, object>>
    PROVE  WorldInv'
<1>1. CallsInv /\ WorldInv /\ SameManager
  BY ManagerSame DEF IInv
<1>2. Error(c) \in Dull /\ Error(c) \in Message /\ Says(<<Error(c)>>, {c})
  BY <1>1, FailSays DEF Dull
<1>3. Stays
  BY <1>1, <1>2, OneGrows, DullStays
<1>4. running' = running /\ modem' = modem /\ c \in calls /\ calls' = calls \ {c}
  BY DEF Fail
<1>5. ~ running => calls' = {}
  BY <1>1, <1>4 DEF WorldInv, NameInv
<1> DEFINE lost == c.call # "SetProperty"
<1>6. GetModems \in calls => GetModems \in calls' \/ lost
  BY <1>4 DEF GetModems
<1>7. \A o : GetProperties(o) \in calls => GetProperties(o) \in calls' \/ lost
  BY <1>4 DEF GetProperties
<1>8. failed' = (failed \/ lost)
  OBVIOUS
<1> HIDE DEF lost
<1>9. (lost => failed') /\ (failed => failed')
  BY <1>8
<1> QED
  BY <1>1, <1>3, <1>4, <1>5, <1>6, <1>7, <1>9, WorldKept

LEMMA WorldTold ==
    ASSUME IInv, NEW o \in devices, Block(o) \/ urf_daemon_block_idx(o),
           UNCHANGED <<running, modem, failed>>, UNCHANGED <<managerVars, devices, aborted>>
    PROVE  WorldInv' /\ HadInv'
<1>1. CallsInv /\ WorldInv /\ HadInv
  BY DEF IInv
<1>2. /\ SentOn(queue)
      /\ DOMAIN object' = Alive
      /\ \A d \in Alive :
           /\ object'[d].modem = object[d].modem /\ object'[d].index = object[d].index
           /\ object'[d].Powered = object[d].Powered
           /\ object'[d].Online = object[d].Online
  BY <1>1, CallsTold
<1>3. SameManager
  BY <1>2 DEF SameManager, managerVars, Of
<1>4. /\ Stays /\ calls \subseteq calls'
      /\ ~ running => calls' = calls
  BY <1>2, SentStays DEF SentOn
<1>5. ~ running => calls' = {}
  BY <1>1, <1>4 DEF WorldInv, NameInv
<1>6. WorldInv'
  BY <1>3, <1>4, <1>5, WorldKept
<1>7. list \subseteq Alive /\ list' = list
  BY <1>1, <1>3 DEF CallsInv, Shape, SameManager
<1>8. HadInv'
  BY <1>1, <1>2, <1>7 DEF HadInv, Had, Alive
<1> QED
  BY <1>6, <1>8

LEMMA HadSame ==
    ASSUME HadInv, UNCHANGED <<managerVars, object, devices, aborted>> PROVE HadInv'
BY DEF HadInv, Had, managerVars

LEMMA OfonoKeeps == ASSUME IInv, Ofono PROVE WorldInv' /\ HadInv'
<1>1. UNCHANGED <<managerVars, object, devices, aborted, failed>> /\ HadInv
  BY DEF Ofono, IInv
<1>2. HadInv'
  BY <1>1, HadSame
<1>3. UNCHANGED <<managerVars, object, failed>>
  BY <1>1
<1>4. CASE AnswerGetModems
  BY <1>2, <1>3, <1>4, WorldModems
<1>5. CASE AnswerGetProperties
  BY <1>2, <1>3, <1>5, WorldProperties
<1>6. CASE AnswerSetProperty
  BY <1>2, <1>3, <1>6, WorldSetting
<1> QED
  BY <1>2, <1>4, <1>5, <1>6 DEF Ofono

LEMMA InputKeeps == ASSUME IInv, Input PROVE WorldInv' /\ HadInv'
<1>1. UNCHANGED <<managerVars, devices, aborted>> /\ HadInv
  BY DEF Input, IInv
<1>2. ASSUME UNCHANGED object PROVE HadInv' /\ UNCHANGED <<managerVars, object>>
  BY <1>1, <1>2, HadSame
<1>3. CASE Start /\ UNCHANGED <<object, failed>>
  BY <1>2, <1>3, WorldStart
<1>4. CASE Stop /\ UNCHANGED <<object, failed>>
  BY <1>2, <1>4, WorldStop
<1>5. ASSUME NEW m \in Modems, ModemAppears(m), UNCHANGED <<object, failed>>
      PROVE  WorldInv' /\ HadInv'
  BY <1>2, <1>5, WorldAppears
<1>6. ASSUME NEW m \in Modems, ModemDisappears(m), UNCHANGED <<object, failed>>
      PROVE  WorldInv' /\ HadInv'
  BY <1>2, <1>6, WorldDisappears
<1>7. ASSUME NEW m \in Modems, ModemPowers(m), UNCHANGED <<object, failed>>
      PROVE  WorldInv' /\ HadInv'
  BY <1>2, <1>7, WorldPowers
<1>8. ASSUME NEW c \in Call, Fail(c), failed' = (failed \/ c.call # "SetProperty"),
             UNCHANGED object
      PROVE  WorldInv' /\ HadInv'
  BY <1>2, <1>8, WorldFail
<1>9. ASSUME NEW o \in devices, Block(o) \/ urf_daemon_block_idx(o),
             UNCHANGED <<running, modem, failed>>
      PROVE  WorldInv' /\ HadInv'
  BY <1>1, <1>9, WorldTold
<1> QED
  BY <1>3, <1>4, <1>5, <1>6, <1>7, <1>8, <1>9 DEF Input

LEMMA KeepsBegin == Init => IInv
<1> SUFFICES ASSUME Init PROVE IInv
  OBVIOUS
<1>1. CallsInv
  BY CallsBegin
<1>2. /\ \A G : ~ Has(queue, G)
      /\ \A B, G : Covered(queue, B, G)
  BY None DEF Init
<1>3. /\ running = FALSE /\ calls = {} /\ list = {} /\ devices = {} /\ Alive = {}
      /\ \A m \in Modems : modem[m] = "absent"
  BY DEF Init, Alive
<1>4. NameInv /\ ServeInv
  BY <1>2, <1>3 DEF NameInv, ServeInv
<1>5. ASSUME NEW m \in Modems PROVE PlaceInv(m) /\ \A p \in Properties : ValueInv(m, p)
  <2>1. Leaving(m)
    BY <1>2, <1>3 DEF Leaving, Listed
  <2>2. \A p \in Properties : \A v : Latest(m, p, v)
    BY <1>2 DEF Latest
  <2> QED
    BY <1>3, <2>1, <2>2 DEF PlaceInv, ValueInv
<1>6. HadInv
  BY <1>3 DEF HadInv, Had, Alive
<1> QED
  BY <1>1, <1>4, <1>5, <1>6 DEF IInv, WorldInv


-----------------------------------------------------------------------------
(* What urfkilld makes of a message keeps the invariant.                   *)

LEMMA ProxylessSets ==
    /\ \A up : Proxyless(Owner(up))
    /\ Proxyless(Owners)
    /\ \A m : Proxyless(Gone(m)) /\ Proxyless(Drop(m)) /\ Proxyless(Naming(m))
    /\ \A m, p : Proxyless(Signal(m, p)) /\ Proxyless(Drop(m) \cup Signal(m, p))
    /\ \A o : Proxyless(Answer(o))
    /\ \A m, p, o : Proxyless(Signal(m, p) \cup Answer(o))
    /\ \A m, p, v : Proxyless(SignalOf(m, p, v))
    /\ \A o, p, v : Proxyless(AnswerOf(o, p, v))
<1>1. ASSUME NEW s, NEW e \in Ready(s) PROVE e.msg = "ProxyReady"
  BY DEF Ready
<1>2. ASSUME NEW G, \A e \in G : e.msg # "ProxyReady" PROVE Proxyless(G)
  BY <1>1, <1>2 DEF Proxyless
<1>3. /\ \A up : \A e \in Owner(up) : e.msg # "ProxyReady"
      /\ \A e \in Owners : e.msg # "ProxyReady"
  BY DEF Owner, Owners
<1>4. /\ \A m : \A e \in Gone(m) \cup Drop(m) \cup Naming(m) : e.msg # "ProxyReady"
  BY DEF Gone, Drop, Owner, Naming
<1>5. /\ \A m, p : \A e \in Signal(m, p) : e.msg # "ProxyReady"
      /\ \A o : \A e \in Answer(o) : e.msg # "ProxyReady"
  BY DEF Signal, Answer
<1>6. /\ \A m, p, v : \A e \in SignalOf(m, p, v) : e.msg # "ProxyReady"
      /\ \A o, p, v : \A e \in AnswerOf(o, p, v) : e.msg # "ProxyReady"
  BY <1>5 DEF SignalOf, AnswerOf
<1>7. /\ \A m, p : \A e \in Drop(m) \cup Signal(m, p) : e.msg # "ProxyReady"
      /\ \A m, p, o : \A e \in Signal(m, p) \cup Answer(o) : e.msg # "ProxyReady"
  BY <1>4, <1>5
<1>8. /\ \A up : Proxyless(Owner(up))
      /\ Proxyless(Owners)
  BY <1>2, <1>3
<1>9. \A m : Proxyless(Gone(m)) /\ Proxyless(Drop(m)) /\ Proxyless(Naming(m))
  BY <1>2, <1>4
<1>10. /\ \A m, p : Proxyless(Signal(m, p)) /\ Proxyless(Drop(m) \cup Signal(m, p))
       /\ \A o : Proxyless(Answer(o))
       /\ \A m, p, o : Proxyless(Signal(m, p) \cup Answer(o))
  BY <1>2, <1>5, <1>7
<1>11. /\ \A m, p, v : Proxyless(SignalOf(m, p, v))
       /\ \A o, p, v : Proxyless(AnswerOf(o, p, v))
  BY <1>2, <1>6
<1> QED
  BY <1>8, <1>9, <1>10, <1>11

\* The message e was read; but for proxies nothing else has changed that matters.
Takes(e) ==
    \A B, G : Plain(B) /\ Plain(G) /\ Proxyless(B) /\ Proxyless(G) =>
        /\ Has(queue, G) <=> e \in G \/ Has(queue', G)
        /\ Covered(queue, B, G) <=> Covered(queue', B, G) /\ (e \in B => Has(queue', G))

LEMMA TookTakes == ASSUME NEW e, Took(e) PROVE Takes(e)
BY DEF Took, Takes

\* What waits is the message e and then q.
Popped(e, q) ==
    \A B, G :
        /\ Has(queue, G) <=> e \in G \/ Has(q, G)
        /\ Covered(queue, B, G) <=> Covered(q, B, G) /\ (e \in B => Has(q, G))

\* An object was there before, or nothing has been said to it.
Old ==
    \A o \in DOMAIN object' : \/ o \in Alive /\ object'[o].modem = object[o].modem
                              \/ ~ Has(queue, Answer(o))

LEMMA NameTaken ==
    ASSUME NEW e, Takes(e), NameInv, UNCHANGED <<running, modem>>, ~ running => calls' = {}
    PROVE  NameInv'
<1>1. \A up : Plain(Owner(up)) /\ Proxyless(Owner(up))
  BY PlainSets, ProxylessSets
<1>2. /\ Covered(queue, Owner(FALSE), Owner(TRUE)) => Covered(queue', Owner(FALSE), Owner(TRUE))
      /\ Covered(queue, Owner(TRUE), Owner(FALSE)) => Covered(queue', Owner(TRUE), Owner(FALSE))
  BY <1>1 DEF Takes
<1> QED
  BY <1>2 DEF NameInv

LEMMA LeavingTaken ==
    ASSUME NEW e, Takes(e), Old, NEW m \in Modems, Leaving(m),
           Listed(m)' => Has(queue', Drop(m))
    PROVE  Leaving(m)'
<1>1. /\ Plain(Drop(m)) /\ Plain(Naming(m)) /\ \A p : Plain(Signal(m, p))
      /\ \A o : Plain(Answer(o))
      /\ Proxyless(Drop(m)) /\ Proxyless(Naming(m)) /\ \A p : Proxyless(Signal(m, p))
      /\ \A o : Proxyless(Answer(o))
  BY PlainSets, ProxylessSets
<1>2. /\ Covered(queue', Naming(m), Drop(m))
      /\ \A p \in Properties : Covered(queue', Signal(m, p), Drop(m))
  BY <1>1 DEF Takes, Leaving
<1>3. ASSUME NEW o \in DOMAIN object', object'[o].modem = m
      PROVE  Covered(queue', Answer(o), Drop(m))
  <2>1. Covered(queue, Answer(o), Drop(m))
    BY <1>3, Free DEF Old, Leaving
  <2> QED
    BY <1>1, <2>1 DEF Takes
<1> QED
  BY <1>2, <1>3 DEF Leaving, Alive

LEMMA LatestTaken ==
    ASSUME NEW e, Takes(e), Old, NEW m \in Modems, NEW p \in Properties, NEW v, Latest(m, p, v)
    PROVE  Latest(m, p, v)'
<1> DEFINE later == Drop(m) \cup Signal(m, p)
<1>1. /\ Plain(later) /\ Plain(SignalOf(m, p, v)) /\ \A o : Plain(AnswerOf(o, p, v))
      /\ Proxyless(later) /\ Proxyless(SignalOf(m, p, v)) /\ \A o : Proxyless(AnswerOf(o, p, v))
  BY PlainSets, ProxylessSets
<1>2. /\ Covered(queue, SignalOf(m, p, v), later)
      /\ \A o \in Alive : object[o].modem = m => Covered(queue, AnswerOf(o, p, v), later)
  BY DEF Latest
<1> HIDE DEF later
<1>3. Covered(queue', SignalOf(m, p, v), later)
  BY <1>1, <1>2 DEF Takes
<1>4. ASSUME NEW o \in DOMAIN object', object'[o].modem = m
      PROVE  Covered(queue', AnswerOf(o, p, v), later)
  <2>1. ~ Has(queue, Answer(o)) => ~ Has(queue, AnswerOf(o, p, v))
    BY DEF Has, AnswerOf
  <2>2. Covered(queue, AnswerOf(o, p, v), later)
    BY <1>2, <1>4, <2>1, Free DEF Old
  <2> QED
    BY <1>1, <2>2 DEF Takes
<1> QED
  BY <1>3, <1>4 DEF Latest, later, Alive

LEMMA ComingTaken ==
    ASSUME NEW e, Takes(e), calls \subseteq calls', NEW m \in Modems, Coming(m), e \notin Owners,
           Has(queue, Proxies) => Coming(m)',
           e \in Naming(m) /\ ~ Has(queue', Gone(m)) => Coming(m)',
           Listed(m) /\ ~ Has(queue, Gone(m)) => Listed(m)'
    PROVE  Coming(m)'
<1>1. /\ Plain(Gone(m)) /\ Plain(Naming(m)) /\ Plain(Owners)
      /\ Proxyless(Gone(m)) /\ Proxyless(Naming(m)) /\ Proxyless(Owners)
  BY PlainSets, ProxylessSets
<1>2. /\ Has(queue, Owners) => Has(queue', Owners)
      /\ Has(queue', Gone(m)) => Has(queue, Gone(m))
      /\ Covered(queue, Naming(m), Gone(m))
         <=> Covered(queue', Naming(m), Gone(m)) /\ (e \in Naming(m) => Has(queue', Gone(m)))
  BY <1>1 DEF Takes
<1> QED
  BY <1>2 DEF Coming

LEMMA CurrentTaken ==
    ASSUME NEW e, Takes(e), calls \subseteq calls', UNCHANGED modem, NEW o, NEW p,
           object'[o].modem = object[o].modem, Of(object'[o], p) = Of(object[o], p),
           e \notin Drop(object[o].modem) \cup Signal(object[o].modem, p) \cup Answer(o),
           Current(o, p)
    PROVE  Current(o, p)'
<1> DEFINE m == object[o].modem
           B == Signal(m, p) \cup Answer(o)
<1>1. Plain(Drop(m)) /\ Plain(B) /\ Proxyless(Drop(m)) /\ Proxyless(B)
  BY PlainSets, ProxylessSets
<1>2. e \notin Drop(m) /\ e \notin B
  OBVIOUS
<1>3. \/ Has(queue, Drop(m)) \/ GetProperties(o) \in calls \/ Has(queue, B)
      \/ Of(object[o], p) = {Val(p, modem[m])}
  BY DEF Current
<1>4. object'[o].modem = m /\ modem' = modem
  OBVIOUS
<1> HIDE DEF m, B
<1>5. \/ Has(queue', Drop(m)) \/ GetProperties(o) \in calls' \/ Has(queue', B)
      \/ Of(object'[o], p) = {Val(p, modem'[m])}
  BY <1>1, <1>2, <1>3, <1>4 DEF Takes
<1> QED
  BY <1>4, <1>5 DEF Current, B

LEMMA DispatchAppears ==
    ASSUME IInv, NEW e \in Message, NEW q \in Seq(Message), Popped(e, q), Appears(e, q), ~ aborted,
           UNCHANGED <<running, modem, failed>>
    PROVE  WorldInv' /\ HadInv'
<1>1. CallsInv /\ WorldInv /\ HadInv /\ NameInv /\ ServeInv
  BY DEF IInv, WorldInv
<1>2. list \subseteq Alive /\ list' = list /\ object' = object /\ calls' = calls
  BY <1>1 DEF CallsInv, Shape, Appears
<1> DEFINE r == ProxyReady(FALSE)
           ms == <<r>>
<1>3. /\ queue' = q \o ms /\ r \in Ready(FALSE) /\ e \in Owner(TRUE) /\ cancelled' = FALSE
      /\ proxy' = proxy
  BY DEF Appears
<1>4. ms \in Seq(Message) /\ r \in Message /\ r.msg = "ProxyReady" /\ r.stale = FALSE
  <2>1. r \in Message /\ r.msg = "ProxyReady" /\ r.stale = FALSE
    BY MessageMade
  <2> HIDE DEF r
  <2> QED
    BY <2>1
<1>5. /\ \A G : Has(ms, G) <=> r \in G
      /\ \A B, G : Covered(ms, B, G) <=> r \notin B
  BY One
<1> HIDE DEF ms, r
<1>6. /\ \A G : Has(queue', G) <=> Has(q, G) \/ r \in G
      /\ \A B, G : Covered(queue', B, G) <=> r \notin B /\ (Covered(q, B, G) \/ r \in G)
  BY <1>3, <1>4, <1>5, Sent
<1>7. Takes(e)
  <2>1. \A G : Proxyless(G) => r \notin G
    BY <1>3 DEF Proxyless
  <2> QED
    BY <1>6, <2>1 DEF Takes, Popped
<1>8. Old
  BY <1>2 DEF Old, Alive
<1>9. NameInv'
  <2>1. ~ running => calls' = {}
    BY <1>1, <1>2 DEF NameInv
  <2> QED
    BY <1>1, <1>7, <2>1, NameTaken
<1>10. Has(queue', Proxies) /\ Covered(queue', Ready(TRUE), Ready(FALSE))
  <2>1. r \in Proxies /\ r \in Ready(FALSE)
    BY <1>3 DEF Proxies
  <2>2. r \notin Ready(TRUE)
    BY <1>4 DEF Ready
  <2> QED
    BY <1>6, <2>1, <2>2
<1>11. ServeInv'
  BY <1>1, <1>2, <1>3, <1>10 DEF ServeInv
<1>12. e.msg = "NameOwnerChanged" /\ e.up = TRUE
  BY <1>3 DEF Owner
<1>13. /\ \A m : e \notin Drop(m)
       /\ \A m, p : e \notin Signal(m, p)
       /\ \A o : e \notin Answer(o)
  BY <1>12 DEF Drop, Owner, Gone, Signal, Answer
<1>14. ASSUME NEW m \in Modems PROVE PlaceInv(m)'
  <2>1. ASSUME modem[m] = "absent" PROVE Leaving(m)'
    <3>1. Leaving(m)
      BY <1>1, <2>1 DEF WorldInv, PlaceInv
    <3>2. Has(queue, Drop(m)) => Has(queue', Drop(m))
      BY <1>7, <1>13, PlainSets, ProxylessSets DEF Takes
    <3>3. Listed(m)' => Has(queue', Drop(m))
      BY <1>2, <3>1, <3>2 DEF Leaving, Listed
    <3> QED
      BY <1>7, <1>8, <3>1, <3>3, LeavingTaken
  <2> QED
    BY <1>10, <2>1 DEF PlaceInv, Coming
<1>15. ASSUME NEW m \in Modems, NEW p \in Properties PROVE ValueInv(m, p)'
  <2>1. ASSUME NEW v \in BOOLEAN, v # Val(p, modem'[m]) PROVE Latest(m, p, v)'
    <3>1. Latest(m, p, v)
      BY <1>1, <2>1 DEF WorldInv, ValueInv
    <3> QED
      BY <1>7, <1>8, <3>1, LatestTaken
  <2>2. ASSUME ~ failed', NEW o \in list', object'[o].modem = m PROVE Current(o, p)'
    <3>1. Current(o, p)
      BY <1>1, <1>2, <2>2 DEF WorldInv, ValueInv
    <3> QED
      BY <1>2, <1>7, <1>13, <3>1, CurrentTaken
  <2> QED
    BY <2>1, <2>2 DEF ValueInv
<1>16. HadInv'
  BY <1>1, <1>2 DEF HadInv, Appears
<1> QED
  BY <1>9, <1>11, <1>14, <1>15, <1>16 DEF WorldInv

LEMMA DispatchVanishes ==
    ASSUME IInv, NEW e \in Message, NEW q \in Seq(Message), Popped(e, q), Vanishes(e, q), ~ aborted,
           UNCHANGED <<running, modem, failed>>
    PROVE  WorldInv' /\ HadInv'
<1>1. CallsInv /\ WorldInv /\ HadInv /\ NameInv /\ ServeInv
  BY DEF IInv, WorldInv
<1>2. /\ e \in Owner(FALSE) /\ SentMute(q) /\ Fewer /\ list' = {}
      /\ calls' = calls \ {GetModems} /\ aborted' = aborted
  BY DEF Vanishes
<1>3. Takes(e)
  BY <1>2 DEF Takes, SentMute, Popped
<1>4. Old
  BY <1>2 DEF Old, Fewer
<1>5. NameInv'
  <2>1. ~ running => calls' = {}
    BY <1>1, <1>2 DEF NameInv
  <2> QED
    BY <1>1, <1>3, <2>1, NameTaken
<1>6. running => Has(queue', Owners)
  <2>1. running => Has(queue', Owner(TRUE))
    BY <1>1, <1>2, <1>3, PlainSets, ProxylessSets DEF Takes, NameInv
  <2> QED
    BY <2>1 DEF Has, Owners
<1>7. ServeInv'
  BY <1>2, <1>6 DEF ServeInv
<1>8. ASSUME NEW m \in Modems PROVE PlaceInv(m)'
  <2>1. ASSUME modem[m] = "absent" PROVE Leaving(m)'
    <3>1. Leaving(m)
      BY <1>1, <2>1 DEF WorldInv, PlaceInv
    <3>2. ~ Listed(m)'
      BY <1>2 DEF Listed
    <3> QED
      BY <1>3, <1>4, <3>1, <3>2, LeavingTaken
  <2>2. ASSUME modem[m] # "absent" PROVE Coming(m)'
    <3>1. running
      BY <1>1, <2>2 DEF NameInv
    <3> QED
      BY <1>6, <3>1 DEF Coming
  <2> QED
    BY <2>1, <2>2 DEF PlaceInv
<1>9. ASSUME NEW m \in Modems, NEW p \in Properties PROVE ValueInv(m, p)'
  <2>1. ASSUME NEW v \in BOOLEAN, v # Val(p, modem'[m]) PROVE Latest(m, p, v)'
    <3>1. Latest(m, p, v)
      BY <1>1, <2>1 DEF WorldInv, ValueInv
    <3> QED
      BY <1>3, <1>4, <3>1, LatestTaken
  <2> QED
    BY <1>2, <2>1 DEF ValueInv
<1>10. HadInv'
  BY <1>1, <1>2 DEF HadInv, Had, Fewer, Alive
<1> QED
  BY <1>5, <1>7, <1>8, <1>9, <1>10 DEF WorldInv


\* The message e was read, and what was sent for it is dull.
Passes(e) ==
    /\ Took(e) /\ calls \subseteq calls' /\ (~ running => calls' = calls)
    /\ list' \subseteq DOMAIN object' /\ ~ aborted
    /\ UNCHANGED <<running, modem, failed>>

LEMMA PassesOn ==
    ASSUME IInv, NEW e, Passes(e)
    PROVE  /\ Takes(e) /\ NameInv'
           /\ e \notin Owners => (Has(queue', Owners) <=> Has(queue, Owners))
           /\ e \notin Proxies =>
                /\ Has(queue', Proxies) <=> Has(queue, Proxies)
                /\ Covered(queue', Ready(TRUE), Ready(FALSE))
                   <=> Covered(queue, Ready(TRUE), Ready(FALSE))
           /\ \A m : e \notin Drop(m) => (Has(queue', Drop(m)) <=> Has(queue, Drop(m)))
<1>1. Takes(e)
  BY TookTakes DEF Passes
<1>2. NameInv /\ (~ running => calls' = {})
  BY DEF IInv, WorldInv, NameInv, Passes
<1>3. NameInv'
  BY <1>1, <1>2, NameTaken DEF Passes
<1>4. /\ \A up : Plain(Ready(up))
      /\ Plain(Owners) /\ Plain(Proxies) /\ \A m : Plain(Drop(m))
  BY PlainSets
<1>5. e \notin Owners => (Has(queue', Owners) <=> Has(queue, Owners))
  BY <1>4 DEF Passes, Took
<1>6. e \notin Proxies =>
        /\ Has(queue', Proxies) <=> Has(queue, Proxies)
        /\ Covered(queue', Ready(TRUE), Ready(FALSE))
           <=> Covered(queue, Ready(TRUE), Ready(FALSE))
  BY <1>4 DEF Passes, Took, Proxies
<1>7. \A m : e \notin Drop(m) => (Has(queue', Drop(m)) <=> Has(queue, Drop(m)))
  BY <1>4 DEF Passes, Took
<1> QED
  BY <1>1, <1>3, <1>5, <1>6, <1>7

\* Which kinds of messages are of which sets.
LEMMA OtherKinds ==
    ASSUME NEW e
    PROVE  /\ e.msg = "ProxyReady" =>
                /\ e \notin Owners
                /\ \A m : e \notin Drop(m) /\ e \notin Naming(m) /\ \A p : e \notin Signal(m, p)
                /\ \A o : e \notin Answer(o)
           /\ e.msg = "ModemAdded" =>
                /\ e \notin Owners /\ e \notin Proxies
                /\ \A m : e \notin Drop(m) /\ e \notin Gone(m) /\ \A p : e \notin Signal(m, p)
                /\ \A o : e \notin Answer(o)
           /\ e.msg = "ModemRemoved" =>
                /\ e \notin Owners /\ e \notin Proxies
                /\ \A m : e \notin Naming(m) /\ \A p : e \notin Signal(m, p)
                /\ \A m : e \in Drop(m) <=> e \in Gone(m)
                /\ \A o : e \notin Answer(o)
           /\ e.msg = "PropertyChanged" =>
                /\ e \notin Owners /\ e \notin Proxies
                /\ \A m : e \notin Drop(m) /\ e \notin Naming(m)
                /\ \A o : e \notin Answer(o)
           /\ e.msg = "Reply" =>
                /\ e \notin Owners /\ e \notin Proxies
                /\ \A m : e \notin Drop(m) /\ e \notin Gone(m) /\ \A p : e \notin Signal(m, p)
                /\ e.call = GetModems => \A o : e \notin Answer(o)
                /\ e.call.call # "GetModems" => \A m : e \notin Naming(m)
<1>1. e.msg = "Reply" /\ e.call = GetModems => \A o : e \notin Answer(o)
  BY CallMade DEF Answer
<1>2. e.msg = "Reply" /\ e.call.call # "GetModems" => \A m : e \notin Naming(m)
  BY CallMade DEF Naming
<1>3. e.msg = "ModemRemoved" => \A m : e \in Drop(m) <=> e \in Gone(m)
  BY DEF Drop, Owner
<1> QED
  BY <1>1, <1>2, <1>3, Kinds

LEMMA DispatchConnects ==
    ASSUME IInv, NEW e \in Message, NEW q, Passes(e), Connects(e, q)
    PROVE  WorldInv' /\ HadInv'
<1>1. CallsInv /\ WorldInv /\ HadInv /\ NameInv /\ ServeInv
  BY DEF IInv, WorldInv
<1>2. list' = list /\ object' = object /\ devices' = devices /\ aborted' = aborted
  BY DEF Connects
<1>3. Takes(e) /\ NameInv' /\ Old /\ calls \subseteq calls' /\ modem' = modem
      /\ running' = running /\ failed' = failed
  BY <1>2, PassesOn DEF Old, Alive, Passes
<1>4. e.msg = "ProxyReady" /\ e \in Ready(e.stale) /\ e.stale \in BOOLEAN
  BY DEF Connects, Ready
<1>5. /\ e \notin Owners
      /\ \A m : e \notin Drop(m) /\ e \notin Naming(m) /\ \A p : e \notin Signal(m, p)
      /\ \A o : e \notin Answer(o)
  BY <1>4, OtherKinds
<1>6. /\ Has(queue', Owners) <=> Has(queue, Owners)
      /\ \A m : Has(queue', Drop(m)) <=> Has(queue, Drop(m))
  BY <1>5, PassesOn
<1>7. Covered(queue, Ready(TRUE), Ready(FALSE)) =>
        /\ Covered(queue', Ready(TRUE), Ready(FALSE))
        /\ e.stale = TRUE => Has(queue', Proxies)
  <2>1. Covered(queue, Ready(TRUE), Ready(FALSE)) =>
          /\ Covered(queue', Ready(TRUE), Ready(FALSE))
          /\ e \in Ready(TRUE) => Has(queue', Ready(FALSE))
    BY PlainSets DEF Passes, Took
  <2>2. Has(queue', Ready(FALSE)) => Has(queue', Proxies)
    BY DEF Has, Proxies
  <2> QED
    BY <1>4, <2>1, <2>2
\* Its connection succeeds, or there is a newer one.
<1>8. running /\ ~ Has(queue, Owners) =>
        /\ ~ cancelled' /\ Covered(queue', Ready(TRUE), Ready(FALSE))
        /\ \/ proxy'.current /\ GetModems \in calls'
           \/ Has(queue', Proxies)
  BY <1>1, <1>4, <1>7 DEF Connects, ServeInv
<1>9. ServeInv'
  <2>1. list' # {} => proxy'.current \/ proxy'.leaked
    BY <1>1, <1>2 DEF Connects, ServeInv
  <2> QED
    BY <1>1, <1>2, <1>3, <1>6, <1>8, <2>1 DEF ServeInv
<1>10. ASSUME NEW m \in Modems PROVE PlaceInv(m)'
  <2>1. ASSUME modem[m] = "absent" PROVE Leaving(m)'
    <3>1. Leaving(m)
      BY <1>1, <2>1 DEF WorldInv, PlaceInv
    <3>2. Listed(m)' => Has(queue', Drop(m))
      BY <1>2, <1>6, <3>1 DEF Leaving, Listed
    <3> QED
      BY <1>3, <3>1, <3>2, LeavingTaken
  <2>2. ASSUME modem[m] # "absent", ~ failed PROVE Coming(m)'
    <3>1. Coming(m) /\ running
      BY <1>1, <2>2 DEF WorldInv, PlaceInv, NameInv
    <3>2. Coming(m)'
      BY <1>6, <1>8, <3>1 DEF Coming
    <3> QED
      BY <3>2
  <2> QED
    BY <1>3, <2>1, <2>2 DEF PlaceInv
<1>11. ASSUME NEW m \in Modems, NEW p \in Properties PROVE ValueInv(m, p)'
  <2>1. ASSUME NEW v \in BOOLEAN, v # Val(p, modem'[m]) PROVE Latest(m, p, v)'
    <3>1. Latest(m, p, v)
      BY <1>1, <1>3, <2>1 DEF WorldInv, ValueInv
    <3> QED
      BY <1>3, <3>1, LatestTaken
  <2>2. ASSUME ~ failed', NEW o \in list', object'[o].modem = m PROVE Current(o, p)'
    <3>1. Current(o, p)
      BY <1>1, <1>2, <1>3, <2>2 DEF WorldInv, ValueInv
    <3> QED
      BY <1>2, <1>3, <1>5, <3>1, CurrentTaken
  <2> QED
    BY <2>1, <2>2 DEF ValueInv
<1>12. HadInv'
  BY <1>1, <1>2 DEF HadInv
<1> QED
  BY <1>3, <1>9, <1>10, <1>11, <1>12 DEF WorldInv

LEMMA DispatchIgnores ==
    ASSUME IInv, NEW e \in Message, NEW q, Passes(e), Ignores(e, q)
    PROVE  WorldInv' /\ HadInv'
<1>1. CallsInv /\ WorldInv /\ HadInv /\ NameInv /\ ServeInv
  BY DEF IInv, WorldInv
<1>2. /\ list' = list /\ object' = object /\ devices' = devices /\ aborted' = aborted
      /\ cancelled' = cancelled /\ proxy' = proxy
  BY DEF Ignores
<1>3. Takes(e) /\ NameInv' /\ Old /\ calls \subseteq calls' /\ modem' = modem
      /\ running' = running /\ failed' = failed
  BY <1>2, PassesOn DEF Old, Alive, Passes
<1>4. \/ e.msg \in {"ModemAdded", "ModemRemoved"} /\ ~ (proxy.current \/ proxy.leaked)
      \/ e.msg = "Reply" /\ e.call = GetModems /\ ~ (e.ok /\ proxy.current)
  BY DEF Ignores
<1>5. /\ e \notin Owners /\ e \notin Proxies
      /\ \A m, p : e \notin Signal(m, p)
      /\ \A o : e \notin Answer(o)
      /\ list = {} \/ \A m : e \notin Drop(m)
  BY <1>1, <1>4, OtherKinds DEF ServeInv
<1>6. \A m : e \in Naming(m) => ~ proxy.current
  BY <1>4 DEF Naming
<1>7. /\ Has(queue', Owners) <=> Has(queue, Owners)
      /\ Has(queue', Proxies) <=> Has(queue, Proxies)
      /\ Covered(queue', Ready(TRUE), Ready(FALSE)) <=> Covered(queue, Ready(TRUE), Ready(FALSE))
      /\ \A m : e \notin Drop(m) => (Has(queue', Drop(m)) <=> Has(queue, Drop(m)))
  BY <1>5, PassesOn
<1>8. ServeInv'
  BY <1>1, <1>2, <1>3, <1>7 DEF ServeInv
<1>9. ASSUME NEW m \in Modems PROVE PlaceInv(m)'
  <2>1. ASSUME modem[m] = "absent" PROVE Leaving(m)'
    <3>1. Leaving(m)
      BY <1>1, <2>1 DEF WorldInv, PlaceInv
    <3>2. Listed(m)' => Has(queue', Drop(m))
      BY <1>2, <1>5, <1>7, <3>1 DEF Leaving, Listed
    <3> QED
      BY <1>3, <3>1, <3>2, LeavingTaken
  <2>2. ASSUME modem[m] # "absent", ~ failed PROVE Coming(m)'
    <3>1. Coming(m) /\ running
      BY <1>1, <2>2 DEF WorldInv, PlaceInv, NameInv
    <3>2. Has(queue, Proxies) => Coming(m)'
      BY <1>7 DEF Coming
    <3>3. e \in Naming(m) => Coming(m)'
      BY <1>1, <1>6, <1>7, <3>1 DEF ServeInv, Coming
    <3>4. Listed(m) => Listed(m)'
      BY <1>2 DEF Listed
    <3> QED
      BY <1>3, <1>5, <3>1, <3>2, <3>3, <3>4, ComingTaken
  <2> QED
    BY <1>3, <2>1, <2>2 DEF PlaceInv
<1>10. ASSUME NEW m \in Modems, NEW p \in Properties PROVE ValueInv(m, p)'
  <2>1. ASSUME NEW v \in BOOLEAN, v # Val(p, modem'[m]) PROVE Latest(m, p, v)'
    <3>1. Latest(m, p, v)
      BY <1>1, <1>3, <2>1 DEF WorldInv, ValueInv
    <3> QED
      BY <1>3, <3>1, LatestTaken
  <2>2. ASSUME ~ failed', NEW o \in list', object'[o].modem = m PROVE Current(o, p)'
    <3>1. Current(o, p)
      BY <1>1, <1>2, <1>3, <2>2 DEF WorldInv, ValueInv
    <3>2. \A n : e \notin Drop(n)
      BY <1>2, <1>5, <2>2
    <3> QED
      BY <1>2, <1>3, <1>5, <3>1, <3>2, CurrentTaken
  <2> QED
    BY <2>1, <2>2 DEF ValueInv
<1>11. HadInv'
  BY <1>1, <1>2 DEF HadInv
<1> QED
  BY <1>3, <1>8, <1>9, <1>10, <1>11 DEF WorldInv

LEMMA DispatchRemoves ==
    ASSUME IInv, NEW e \in Message, NEW q, Passes(e), Removes(e, q)
    PROVE  WorldInv' /\ HadInv'
<1> DEFINE k == e.modem
<1>1. CallsInv /\ WorldInv /\ HadInv /\ NameInv /\ ServeInv
  BY DEF IInv, WorldInv
<1>2. /\ DOMAIN object' \subseteq Alive /\ \A o \in DOMAIN object' : object'[o] = object[o]
      /\ list' = list \ find_modem(k) /\ devices' = devices \ find_modem(k)
      /\ list' \subseteq DOMAIN object'
      /\ cancelled' = cancelled /\ proxy' = proxy /\ aborted' = aborted
  BY DEF Removes, Fewer, Passes
<1>3. Takes(e) /\ NameInv' /\ Old /\ calls \subseteq calls' /\ modem' = modem
      /\ running' = running /\ failed' = failed
  BY <1>2, PassesOn DEF Old, Passes
<1>4. e.msg = "ModemRemoved" /\ \A m : e \in Gone(m) <=> m = k
  BY DEF Removes, Gone
<1>5. /\ e \notin Owners /\ e \notin Proxies
      /\ \A m : e \notin Naming(m) /\ \A p : e \notin Signal(m, p)
      /\ \A o : e \notin Answer(o)
      /\ \A m : e \in Drop(m) <=> m = k
  BY <1>4, OtherKinds
<1>6. /\ Has(queue', Owners) <=> Has(queue, Owners)
      /\ Has(queue', Proxies) <=> Has(queue, Proxies)
      /\ Covered(queue', Ready(TRUE), Ready(FALSE)) <=> Covered(queue, Ready(TRUE), Ready(FALSE))
      /\ \A m : m # k => (Has(queue', Drop(m)) <=> Has(queue, Drop(m)))
  BY <1>5, PassesOn
<1> HIDE DEF k
<1>7. \A o \in list' : o \in list /\ object'[o] = object[o] /\ object[o].modem # k
  BY <1>2 DEF find_modem
<1>8. \A o \in list : object[o].modem # k => o \in list'
  BY <1>2 DEF find_modem
<1>9. ServeInv'
  <2>1. list' # {} => list # {}
    BY <1>7
  <2>2. \A a, b \in list' : object'[a].modem = object'[b].modem => a = b
    BY <1>1, <1>7 DEF ServeInv
  <2> QED
    BY <1>1, <1>2, <1>3, <1>6, <2>1, <2>2 DEF ServeInv
<1>10. ASSUME NEW m \in Modems PROVE PlaceInv(m)'
  <2>1. ASSUME modem[m] = "absent" PROVE Leaving(m)'
    <3>1. Leaving(m)
      BY <1>1, <2>1 DEF WorldInv, PlaceInv
    <3>2. Listed(m)' => Has(queue', Drop(m))
      <4>1. Listed(m)' => m # k /\ Listed(m)
        BY <1>7 DEF Listed
      <4> QED
        BY <1>6, <3>1, <4>1 DEF Leaving
    <3> QED
      BY <1>3, <3>1, <3>2, LeavingTaken
  <2>2. ASSUME modem[m] # "absent", ~ failed PROVE Coming(m)'
    <3>1. Coming(m)
      BY <1>1, <2>2 DEF WorldInv, PlaceInv
    <3>2. Has(queue, Proxies) => Coming(m)'
      BY <1>6 DEF Coming
    <3>3. Listed(m) /\ ~ Has(queue, Gone(m)) => Listed(m)'
      <4>1. e \in Gone(m) => Has(queue, Gone(m))
        BY <1>3, PlainSets, ProxylessSets DEF Takes
      <4>2. ~ Has(queue, Gone(m)) => m # k
        BY <1>4, <4>1
      <4> QED
        BY <1>7, <1>8, <4>2 DEF Listed
    <3> QED
      BY <1>3, <1>5, <3>1, <3>2, <3>3, ComingTaken
  <2> QED
    BY <1>3, <2>1, <2>2 DEF PlaceInv
<1>11. ASSUME NEW m \in Modems, NEW p \in Properties PROVE ValueInv(m, p)'
  <2>1. ASSUME NEW v \in BOOLEAN, v # Val(p, modem'[m]) PROVE Latest(m, p, v)'
    <3>1. Latest(m, p, v)
      BY <1>1, <1>3, <2>1 DEF WorldInv, ValueInv
    <3> QED
      BY <1>3, <3>1, LatestTaken
  <2>2. ASSUME ~ failed', NEW o \in list', object'[o].modem = m PROVE Current(o, p)'
    <3>1. o \in list /\ object'[o] = object[o] /\ object[o].modem = m /\ m # k
      BY <1>7, <2>2
    <3>2. Current(o, p)
      BY <1>1, <1>3, <2>2, <3>1 DEF WorldInv, ValueInv
    <3>3. e \notin Drop(m)
      BY <1>5, <3>1
    <3> QED
      BY <1>3, <1>5, <3>1, <3>2, <3>3, CurrentTaken
  <2> QED
    BY <2>1, <2>2 DEF ValueInv
<1>12. HadInv'
  <2> SUFFICES ASSUME ~ aborted' PROVE Had(list', devices', object')
    BY DEF HadInv
  <2>1. Had(list, devices, object)
    BY <1>1, <1>2 DEF HadInv
  <2>2. \A a, b \in DOMAIN object' : object'[a].index = object'[b].index => a = b
    BY <1>2, <2>1 DEF Had, Alive
  <2>3. \A o \in list' : o \in devices' <=> o \in devices
    BY <1>2, <1>7 DEF find_modem
  <2>4. \A o \in list' : o \in devices' <=> object'[o].Powered = {TRUE}
    BY <1>7, <2>1, <2>3 DEF Had
  <2> QED
    BY <2>2, <2>4 DEF Had
<1> QED
  BY <1>3, <1>9, <1>10, <1>11, <1>12 DEF WorldInv


LEMMA DispatchTells ==
    ASSUME IInv, NEW e \in Message, NEW q, Passes(e), Tells(e, q)
    PROVE  WorldInv' /\ HadInv'
<1>1. CallsInv /\ WorldInv /\ HadInv /\ NameInv /\ ServeInv
  BY DEF IInv, WorldInv
<1>2. /\ cancelled' = cancelled /\ proxy' = proxy /\ list' = list /\ aborted' = aborted
      /\ DOMAIN object' \subseteq Alive /\ list \subseteq DOMAIN object'
      /\ \A o \in DOMAIN object' :
           /\ object'[o].modem = object[o].modem
           /\ \A p \in Properties :
                Of(object'[o], p) = IF Told(e, o, p) THEN {Value(e, p)} ELSE Of(object[o], p)
  BY DEF Tells, Hearing, Passes
<1>3. Takes(e) /\ NameInv' /\ Old /\ calls \subseteq calls' /\ modem' = modem
      /\ running' = running /\ failed' = failed
  BY <1>2, PassesOn DEF Old, Passes
<1>4. e.msg = "PropertyChanged" \/ (e.msg = "Reply" /\ e.call.call # "GetModems")
  BY DEF Tells
<1>5. e \notin Owners /\ e \notin Proxies /\ \A m : e \notin Drop(m) /\ e \notin Naming(m)
  BY <1>4, OtherKinds
<1>6. /\ Has(queue', Owners) <=> Has(queue, Owners)
      /\ Has(queue', Proxies) <=> Has(queue, Proxies)
      /\ Covered(queue', Ready(TRUE), Ready(FALSE)) <=> Covered(queue, Ready(TRUE), Ready(FALSE))
      /\ \A m : Has(queue', Drop(m)) <=> Has(queue, Drop(m))
  BY <1>5, PassesOn
<1>7. \A m : Listed(m)' <=> Listed(m)
  BY <1>2 DEF Listed
<1>8. ServeInv'
  <2>1. \A a, b \in list' : object'[a].modem = object'[b].modem => a = b
    BY <1>1, <1>2 DEF ServeInv
  <2> QED
    BY <1>1, <1>2, <1>3, <1>6, <2>1 DEF ServeInv
<1>9. ASSUME NEW m \in Modems PROVE PlaceInv(m)'
  <2>1. ASSUME modem[m] = "absent" PROVE Leaving(m)'
    <3>1. Leaving(m)
      BY <1>1, <2>1 DEF WorldInv, PlaceInv
    <3>2. Listed(m)' => Has(queue', Drop(m))
      BY <1>6, <1>7, <3>1 DEF Leaving
    <3> QED
      BY <1>3, <3>1, <3>2, LeavingTaken
  <2>2. ASSUME modem[m] # "absent", ~ failed PROVE Coming(m)'
    <3>1. Coming(m)
      BY <1>1, <2>2 DEF WorldInv, PlaceInv
    <3>2. Has(queue, Proxies) => Coming(m)'
      BY <1>6 DEF Coming
    <3> QED
      BY <1>3, <1>5, <1>7, <3>1, <3>2, ComingTaken
  <2> QED
    BY <1>3, <2>1, <2>2 DEF PlaceInv
<1>10. ASSUME NEW m \in Modems, NEW p \in Properties PROVE ValueInv(m, p)'
  <2>1. ASSUME NEW v \in BOOLEAN, v # Val(p, modem'[m]) PROVE Latest(m, p, v)'
    <3>1. Latest(m, p, v)
      BY <1>1, <1>3, <2>1 DEF WorldInv, ValueInv
    <3> QED
      BY <1>3, <3>1, LatestTaken
  <2>2. ASSUME ~ failed', NEW o \in list', object'[o].modem = m PROVE Current(o, p)'
    <3>1. /\ o \in list /\ o \in DOMAIN object' /\ o \in Alive
          /\ object[o].modem = m /\ object'[o].modem = m
          /\ Of(object'[o], p) = IF Told(e, o, p) THEN {Value(e, p)} ELSE Of(object[o], p)
      BY <1>2, <2>2
    <3>2. Current(o, p)
      BY <1>1, <1>3, <2>2, <3>1 DEF WorldInv, ValueInv
    <3>3. CASE ~ Told(e, o, p)
      BY <1>3, <1>5, <3>1, <3>2, <3>3, CurrentTaken DEF Told
\* It is told an old value: a newer one, or the end, is behind.
    <3>4. CASE Told(e, o, p) /\ Value(e, p) # Val(p, modem[m])
      <4> DEFINE v == Value(e, p)
                 later == Drop(m) \cup Signal(m, p)
                 B == Signal(m, p) \cup Answer(o)
      <4>1. e \in Signal(m, p) \/ e \in Answer(o)
        BY <3>1, <3>4 DEF Told
      <4>2. ASSUME e \in Signal(m, p) PROVE Has(queue', later)
        <5>1. e.msg = "PropertyChanged" /\ e.value \in BOOLEAN
          BY <4>2, MessageCases DEF Signal
        <5>2. v \in BOOLEAN /\ e \in SignalOf(m, p, v)
          BY <4>2, <5>1 DEF Value, SignalOf
        <5>3. Latest(m, p, v)
          BY <1>1, <3>4, <5>2 DEF WorldInv, ValueInv
        <5>4. Covered(queue, SignalOf(m, p, v), later)
          BY <5>3 DEF Latest
        <5>5. Plain(SignalOf(m, p, v)) /\ Plain(later)
              /\ Proxyless(SignalOf(m, p, v)) /\ Proxyless(later)
          BY PlainSets, ProxylessSets
        <5> HIDE DEF later, v
        <5> QED
          BY <1>3, <5>2, <5>4, <5>5 DEF Takes
      <4>3. ASSUME e \in Answer(o) PROVE Has(queue', later)
        <5>1. e.msg = "Reply"
          BY <4>3 DEF Answer
        <5>2. v = Val(p, e.state) /\ v \in BOOLEAN
          <6>1. v = Val(p, e.state)
            BY <5>1 DEF Value
          <6>2. \A x : (x = "online") \in BOOLEAN /\ Powered(x) \in BOOLEAN
            BY DEF Powered
          <6>3. CASE p = "Powered"
            BY <6>1, <6>2, <6>3 DEF Val
          <6>4. CASE p # "Powered"
            BY <6>1, <6>2, <6>4 DEF Val
          <6> QED
            BY <6>1, <6>3, <6>4
        <5>3. e \in AnswerOf(o, p, v)
          BY <4>3, <5>2 DEF AnswerOf
        <5>4. Latest(m, p, v)
          BY <1>1, <3>4, <5>2 DEF WorldInv, ValueInv
        <5>5. Covered(queue, AnswerOf(o, p, v), later)
          BY <3>1, <5>4 DEF Latest
        <5>6. Plain(AnswerOf(o, p, v)) /\ Plain(later)
              /\ Proxyless(AnswerOf(o, p, v)) /\ Proxyless(later)
          BY PlainSets, ProxylessSets
        <5> HIDE DEF later, v
        <5> QED
          BY <1>3, <5>3, <5>5, <5>6 DEF Takes
      <4>4. Has(queue', later)
        BY <4>1, <4>2, <4>3
      <4>5. Has(queue', Drop(m)) \/ Has(queue', B)
        BY <4>4 DEF Has
      <4> HIDE DEF later, B
      <4> QED
        BY <3>1, <4>5 DEF Current, B
    <3>5. CASE Told(e, o, p) /\ Value(e, p) = Val(p, modem[m])
      BY <1>3, <3>1, <3>5 DEF Current
    <3> QED
      BY <3>3, <3>4, <3>5
  <2> QED
    BY <2>1, <2>2 DEF ValueInv
<1>11. HadInv'
  BY <1>1, <1>2 DEF HadInv, Tells, HadKept
<1> QED
  BY <1>3, <1>8, <1>9, <1>10, <1>11 DEF WorldInv

\* Nothing has been said to an object before it is there.
LEMMA Unasked ==
    ASSUME CallsInv, NEW o \in Objects \ Alive PROVE ~ Has(queue, Answer(o))
<1>1. ~ Pending(Asking(o), calls, queue)
  BY DEF CallsInv, Tracked, Alive
<1>2. ~ Has(queue, RepliesTo(Asking(o)))
  BY <1>1 DEF Pending
<1> QED
  BY <1>2 DEF Has, RepliesTo, Asking, Answer

LEMMA DispatchAdds ==
    ASSUME IInv, NEW e \in Message, NEW q, Passes(e), Adds(e, q)
    PROVE  WorldInv' /\ HadInv'
<1> DEFINE ms == {m \in Modems : e \in Naming(m) /\ find_modem(m) = {}}
<1>1. CallsInv /\ WorldInv /\ HadInv /\ NameInv /\ ServeInv
  BY DEF IInv, WorldInv
<1>2. PICK ids : Makes(ms, ids)
  BY DEF Adds
<1>3. ms \subseteq Modems /\ \A m \in ms : e \in Naming(m) /\ ~ Listed(m)
  BY DEF find_modem, Listed
<1>4. ASSUME NEW m \in Modems, e \in Naming(m), ~ Listed(m) PROVE m \in ms
  BY <1>4 DEF find_modem, Listed
<1>5. /\ e.msg = "ModemAdded" \/ (e.msg = "Reply" /\ e.call = GetModems)
      /\ proxy.current \/ proxy.leaked
      /\ cancelled' = cancelled /\ proxy' = proxy
  BY DEF Adds
<1> HIDE DEF ms
<1>6. /\ ids \subseteq Objects \ Alive
      /\ DOMAIN object' = Alive \cup ids
      /\ \A o \in Alive : object'[o] = object[o]
      /\ \A o \in ids : /\ object'[o].modem \in ms /\ object'[o].Powered = {}
                        /\ running => GetProperties(o) \in calls'
      /\ \A m \in ms : \E o \in ids : object'[o].modem = m
      /\ list' = list \cup ids /\ devices' = devices
  BY <1>2 DEF Makes
<1>7. list \subseteq Alive /\ devices \subseteq Alive
  BY <1>1 DEF CallsInv, Shape
<1>8. Old
  BY <1>1, <1>6, Unasked DEF Old
<1>9. Takes(e) /\ NameInv' /\ calls \subseteq calls' /\ modem' = modem
      /\ running' = running /\ failed' = failed
  BY PassesOn DEF Passes
<1>10. /\ e \notin Owners /\ e \notin Proxies
       /\ \A m : e \notin Drop(m) /\ e \notin Gone(m) /\ \A p : e \notin Signal(m, p)
       /\ \A o : e \notin Answer(o)
  BY <1>5, OtherKinds
<1>11. /\ Has(queue', Owners) <=> Has(queue, Owners)
       /\ Has(queue', Proxies) <=> Has(queue, Proxies)
       /\ Covered(queue', Ready(TRUE), Ready(FALSE)) <=> Covered(queue, Ready(TRUE), Ready(FALSE))
       /\ \A m : Has(queue', Drop(m)) <=> Has(queue, Drop(m))
  BY <1>10, PassesOn
\* A modem that is gone has its end behind what has named it.
<1>12. ASSUME NEW m \in ms, modem[m] = "absent" PROVE Has(queue', Drop(m))
  <2>1. Covered(queue, Naming(m), Drop(m)) /\ e \in Naming(m)
    BY <1>1, <1>3, <1>12 DEF WorldInv, PlaceInv, Leaving
  <2> QED
    BY <1>9, <2>1, PlainSets, ProxylessSets DEF Takes
<1>13. ServeInv'
  <2>1. ASSUME NEW a \in list', NEW b \in list', object'[a].modem = object'[b].modem
        PROVE  a = b
    <3>1. CASE a \in list /\ b \in list
      BY <1>1, <1>6, <1>7, <2>1, <3>1 DEF ServeInv
    <3>2. CASE a \in ids /\ b \in ids
      BY <1>2, <2>1, <3>2 DEF Makes
    <3>3. ASSUME NEW x \in list, NEW y \in ids PROVE object'[x].modem # object'[y].modem
      <4>1. Listed(object[x].modem) /\ object'[x].modem = object[x].modem
        BY <1>6, <1>7 DEF Listed
      <4> QED
        BY <1>3, <1>6, <4>1
    <3> QED
      BY <1>6, <2>1, <3>1, <3>2, <3>3
  <2> QED
    BY <1>1, <1>5, <1>9, <1>11, <2>1 DEF ServeInv
<1>14. ASSUME NEW m \in Modems PROVE PlaceInv(m)'
  <2>1. ASSUME modem[m] = "absent" PROVE Leaving(m)'
    <3>1. Leaving(m)
      BY <1>1, <2>1 DEF WorldInv, PlaceInv
    <3>2. Listed(m)' => Has(queue', Drop(m))
      <4>1. Listed(m)' => Listed(m) \/ m \in ms
        BY <1>6, <1>7 DEF Listed
      <4> QED
        BY <1>11, <1>12, <2>1, <3>1, <4>1 DEF Leaving
    <3> QED
      BY <1>8, <1>9, <3>1, <3>2, LeavingTaken
  <2>2. ASSUME modem[m] # "absent", ~ failed PROVE Coming(m)'
    <3>1. Coming(m)
      BY <1>1, <2>2 DEF WorldInv, PlaceInv
    <3>2. Has(queue, Proxies) => Coming(m)'
      BY <1>11 DEF Coming
    <3>3. Listed(m) => Listed(m)'
      BY <1>6, <1>7 DEF Listed
    <3>4. e \in Naming(m) => Listed(m)'
      <4>1. m \in ms => Listed(m)'
        BY <1>6 DEF Listed
      <4> QED
        BY <1>4, <3>3, <4>1
    <3>5. e \in Naming(m) /\ ~ Has(queue', Gone(m)) => Coming(m)'
      BY <3>4 DEF Coming
    <3> QED
      BY <1>9, <1>10, <3>1, <3>2, <3>3, <3>5, ComingTaken
  <2> QED
    BY <1>9, <2>1, <2>2 DEF PlaceInv
<1>15. ASSUME NEW m \in Modems, NEW p \in Properties PROVE ValueInv(m, p)'
  <2>1. ASSUME NEW v \in BOOLEAN, v # Val(p, modem'[m]) PROVE Latest(m, p, v)'
    <3>1. Latest(m, p, v)
      BY <1>1, <1>9, <2>1 DEF WorldInv, ValueInv
    <3> QED
      BY <1>8, <1>9, <3>1, LatestTaken
  <2>2. ASSUME ~ failed', NEW o \in list, object'[o].modem = m PROVE Current(o, p)'
    <3>1. object'[o] = object[o]
      BY <1>6, <1>7
    <3>2. Current(o, p)
      BY <1>1, <1>9, <2>2, <3>1 DEF WorldInv, ValueInv
    <3> QED
      BY <1>9, <1>10, <3>1, <3>2, CurrentTaken
  <2>3. ASSUME NEW o \in ids, object'[o].modem = m PROVE Current(o, p)'
    <3>1. m \in ms /\ (running => GetProperties(o) \in calls')
      BY <1>6, <2>3
    <3>2. ~ running => Has(queue', Drop(m))
      BY <1>1, <1>12, <3>1 DEF NameInv
    <3> QED
      BY <2>3, <3>1, <3>2 DEF Current
  <2> QED
    BY <1>6, <2>1, <2>2, <2>3 DEF ValueInv
<1>16. HadInv'
  <2> SUFFICES ASSUME ~ aborted' PROVE Had(list', devices', object')
    BY DEF HadInv
  <2>1. Had(list, devices, object)
    BY <1>1 DEF HadInv, Passes
  <2>2. ASSUME NEW a \in DOMAIN object', NEW b \in DOMAIN object',
               object'[a].index = object'[b].index
        PROVE  a = b
    <3>1. CASE a \in Alive /\ b \in Alive
      BY <1>6, <2>1, <2>2, <3>1 DEF Had, Alive
    <3>2. CASE a \in ids /\ b \in ids
      BY <1>2, <2>2, <3>2 DEF Makes
    <3>3. ASSUME NEW x \in Alive, NEW y \in ids PROVE object'[x].index # object'[y].index
      BY <1>2 DEF Makes
    <3> QED
      BY <1>6, <2>2, <3>1, <3>2, <3>3
  <2>3. ASSUME NEW o \in list' PROVE o \in devices' <=> object'[o].Powered = {TRUE}
    <3>1. CASE o \in list
      BY <1>6, <1>7, <2>1, <3>1 DEF Had
    <3>2. CASE o \in ids
      <4>1. o \notin devices' /\ object'[o].Powered = {}
        BY <1>6, <1>7, <3>2
      <4> QED
        BY <4>1
    <3> QED
      BY <1>6, <3>1, <3>2
  <2> QED
    BY <2>2, <2>3 DEF Had
<1> QED
  BY <1>9, <1>13, <1>14, <1>15, <1>16 DEF WorldInv

LEMMA DispatchKeeps == ASSUME IInv, Dispatch PROVE WorldInv' /\ HadInv'
<1> DEFINE h == Head(queue)
           t == Tail(queue)
<1>1. CallsInv /\ (~ running => calls = {})
  BY DEF IInv, WorldInv, NameInv
<1>2. /\ queue # <<>> /\ ~ aborted
      /\ UNCHANGED <<running, modem, failed>>
      /\ Settled /\ Handles(h, t)
  BY <1>1, DispatchDone
<1>3. h \in Message /\ t \in Seq(Message) /\ Popped(h, t)
  <2>1. queue \in Seq(Message)
    BY <1>1 DEF CallsInv, Shape
  <2>2. /\ t \in Seq(Message) /\ h \in Message
        /\ \A G : Has(queue, G) <=> h \in G \/ Has(t, G)
        /\ \A B, G : Covered(queue, B, G) <=> Covered(t, B, G) /\ (h \in B => Has(t, G))
    BY <1>2, <2>1, Read
  <2> HIDE DEF h, t
  <2> QED
    BY <2>2 DEF Popped
<1>4. ASSUME SentOn(t) PROVE Passes(h)
  <2>1. Took(h)
    BY <1>1, <1>2, <1>4, SentTook
  <2> QED
    BY <1>2, <1>4, <2>1 DEF Passes, SentOn, Settled
<1> HIDE DEF h, t
<1>5. CASE Appears(h, t)
  BY <1>2, <1>3, <1>5, DispatchAppears
<1>6. CASE Vanishes(h, t)
  BY <1>2, <1>3, <1>6, DispatchVanishes
<1>7. CASE Connects(h, t)
  BY <1>3, <1>4, <1>7, DispatchConnects DEF Connects
<1>8. CASE Adds(h, t)
  BY <1>3, <1>4, <1>8, DispatchAdds DEF Adds
<1>9. CASE Removes(h, t)
  BY <1>3, <1>4, <1>9, DispatchRemoves DEF Removes
<1>10. CASE Ignores(h, t)
  BY <1>3, <1>4, <1>10, DispatchIgnores DEF Ignores
<1>11. CASE Tells(h, t)
  BY <1>3, <1>4, <1>11, DispatchTells DEF Tells
<1> QED
  BY <1>2, <1>5, <1>6, <1>7, <1>8, <1>9, <1>10, <1>11 DEF Handles

LEMMA KeepsStep == IInv /\ [Next]_vars => IInv'
<1> SUFFICES ASSUME IInv, [Next]_vars PROVE IInv'
  OBVIOUS
<1>1. CallsInv'
  BY CallsStep DEF IInv
<1>2. CASE UNCHANGED vars
  <2> USE <1>2 DEF vars, ofonoVars, managerVars
  <2>1. NameInv' <=> NameInv
    BY DEF NameInv
  <2>2. ServeInv' <=> ServeInv
    BY DEF ServeInv
  <2>3. \A m : PlaceInv(m)' <=> PlaceInv(m)
    BY DEF PlaceInv, Leaving, Coming, Listed, Alive
  <2>4. \A m, p : ValueInv(m, p)' <=> ValueInv(m, p)
    BY DEF ValueInv, Latest, Current, Alive
  <2>5. HadInv' <=> HadInv
    BY DEF HadInv
  <2> QED
    BY <1>1, <2>1, <2>2, <2>3, <2>4, <2>5 DEF IInv, WorldInv
<1>3. CASE Next
  BY <1>1, <1>3, OfonoKeeps, DispatchKeeps, InputKeeps DEF Next, IInv
<1> QED
  BY <1>2, <1>3


LEMMA Emptied ==
    ASSUME Drained PROVE \A G : ~ Has(queue, G) /\ \A B : Covered(queue, B, G)
BY None DEF Drained

LEMMA KnownWhenDrained == ASSUME IInv, Drained PROVE ModemsKnown
<1>1. /\ CallsInv /\ ServeInv /\ \A m \in Modems : PlaceInv(m)
      /\ calls = {} /\ ~ failed
  BY DEF IInv, WorldInv, Drained
<1>2. /\ list \subseteq Alive /\ Alive \subseteq Objects /\ IsFiniteSet(Objects)
      /\ \A o \in Alive : object[o].modem \in Modems
  BY <1>1, OfonoAssumption DEF CallsInv, Shape, Well, Object, Alive, OfonoAssumption
<1>3. ASSUME NEW o \in list PROVE object[o].modem \in Present
  <2> DEFINE m == object[o].modem
  <2>1. m \in Modems /\ Listed(m)
    BY <1>2 DEF Listed
  <2>2. modem[m] = "absent" => Leaving(m)
    BY <1>1, <2>1 DEF PlaceInv
  <2>3. ~ Has(queue, Drop(m))
    BY Emptied
  <2> HIDE DEF m
  <2>4. modem[m] # "absent"
    BY <2>1, <2>2, <2>3 DEF Leaving
  <2> QED
    BY <2>1, <2>4 DEF Present, m
<1>4. ASSUME NEW m \in Present PROVE \E o \in list : object[o].modem = m
  <2>1. Coming(m)
    BY <1>1, <1>4 DEF Present, PlaceInv
  <2> QED
    BY <1>1, <2>1, Emptied DEF Coming, Listed
<1>5. {object[o].modem : o \in list} = Present
  BY <1>3, <1>4
<1> DEFINE f == [o \in list |-> object[o].modem]
<1>6. f \in Bijection(list, Present)
  <2>1. f \in [list -> Present]
    BY <1>3
  <2>2. \A a, b \in list : f[a] = f[b] => a = b
    BY <1>1 DEF ServeInv
  <2>3. \A m \in Present : \E o \in list : f[o] = m
    BY <1>4
  <2> HIDE DEF f
  <2> QED
    BY <2>1, <2>2, <2>3 DEF Bijection, Injection, Surjection, IsInjective
<1>7. IsFiniteSet(list)
  BY <1>2, FS_Subset
<1>8. Cardinality(list) = Cardinality(Present)
  <2>1. ExistsBijection(list, Present)
    BY <1>6 DEF ExistsBijection
  <2> QED
    BY <1>7, <2>1, FS_Bijection
<1> QED
  BY <1>5, <1>8 DEF ModemsKnown

LEMMA CurrentWhenDrained == ASSUME IInv, Drained PROVE ModemsCurrent
<1>1. /\ CallsInv /\ HadInv /\ \A m \in Modems, p \in Properties : ValueInv(m, p)
      /\ calls = {} /\ ~ failed /\ ~ aborted
  BY DEF IInv, WorldInv, Drained
<1>2. \A o \in list : object[o].modem \in Modems
  BY <1>1 DEF CallsInv, Shape, Well, Object, Alive
<1>3. ASSUME NEW o \in list, NEW p \in Properties
      PROVE  Of(object[o], p) = {Val(p, modem[object[o].modem])}
  <2>1. Current(o, p)
    BY <1>1, <1>2 DEF ValueInv
  <2> QED
    BY <1>1, <2>1, Emptied DEF Current
<1>4. ASSUME NEW o \in list
      PROVE  /\ o \in devices <=> Powered(modem[object[o].modem])
             /\ object[o].Powered = {Powered(modem[object[o].modem])}
             /\ object[o].Online = {modem[object[o].modem] = "online"}
  <2> DEFINE state == modem[object[o].modem]
  <2>1. "Powered" \in Properties /\ "Online" \in Properties /\ "Online" # "Powered"
    BY DEF Properties
  <2>2. object[o].Powered = {Powered(state)}
    BY <1>3, <2>1 DEF Of, Val
  <2>3. object[o].Online = {state = "online"}
    BY <1>3, <2>1 DEF Of, Val
  <2>4. o \in devices <=> object[o].Powered = {TRUE}
    BY <1>1 DEF HadInv, Had
  <2>5. {Powered(state)} = {TRUE} <=> Powered(state)
    BY DEF Powered
  <2> QED
    BY <2>2, <2>3, <2>4, <2>5
<1> QED
  BY <1>4 DEF ModemsCurrent

LEMMA Keeps == Spec => []IInv
  BY KeepsBegin, KeepsStep, PTL DEF Spec

\* However GetModems, the signals of oFono and its restarts interleave with what
\* urfkilld makes of them, no modem is lost, doubled or left over once everything is
\* handled, unless a question to oFono failed: a modem that oFono has is heading for the
\* list at every moment, and one that is gone has its end behind all that names it.
THEOREM OfonoModems == Spec => []ModemsKnown
<1>1. IInv => ModemsKnown
  BY KnownWhenDrained DEF ModemsKnown
<1> QED
  BY <1>1, Keeps, PTL

\* Nor is an old value of a property kept: an answer or a signal that tells one has a
\* newer one behind it, so the arbitrator ends with the modems that are powered.
THEOREM OfonoCurrent == Spec => []ModemsCurrent
<1>1. IInv => ModemsCurrent
  BY CurrentWhenDrained DEF ModemsCurrent
<1> QED
  BY <1>1, Keeps, PTL
===============================================================================
